---- MODULE Spec2Model ----
(***************************************************************************)
(* Model of the wizardry workflow orchestrator                             *)
(* (src/wizardry/orchestrator.py, WorkflowOrchestrator.run_workflow and    *)
(* the steps it calls) for one session.                                    *)
(*                                                                         *)
(* The environment is everything the code reads but does not control: the  *)
(* text each agent answers with, whether the agent runtime raises, what    *)
(* the agent did to the workspace checkout with its Bash tool, the exit    *)
(* status of every git/gh process, the registry file and the HTTP          *)
(* broadcast.  Each of these is an input drawn with \E in the action of    *)
(* the step that consumes it.                                              *)
(*                                                                         *)
(* The specifications share the variables:                                 *)
(*   Spec           run_workflow step by step, from workspace setup to the *)
(*                  final status update;                                   *)
(*   LifecycleSpec  the session from setup to disposal (archive_session,   *)
(*                  the CLI's kill, the dashboard's kill_session), with    *)
(*                  the agents' work taken as one step;                    *)
(*   RegistrySpec   two client processes running registry operations on    *)
(*                  the shared registry.json, read and write interleaved;  *)
(*   BackendSpec    the dashboard backend: WebSocket connections, the      *)
(*                  broadcasts and the background workflow task;           *)
(*   DiffSpec       the diff handed to the Reviewer and the Test Planner;  *)
(*   TranscriptSpec transcripts written by the orchestrator and parsed by  *)
(*                  the backend;                                           *)
(*   GateSpec       the checks of `wizardry run` and POST /api/sessions    *)
(*                  before a workflow starts;                              *)
(*   SelfTestSpec   the self-test of the template bundle.                  *)
(***************************************************************************)
EXTENDS Naturals, Sequences, FiniteSets, TLC

VARIABLES
    pc,                 \* position of run_workflow
    running,            \* agent session being awaited, or "none"
    success,            \* the local `success`: "unbound", "True", "False"
    result,             \* how run_workflow ended: "pending", "True", "False", "raised"
    implementation_data,\* "unset" | "ready" | "not_ready" (ready_for_review of the report)
    review_data,        \* "unset" | "approved" | "rejected" (approval of the report)
    iteration,          \* the loop counter; 0 while not yet assigned
    test_plan_data,     \* "unset" | "empty" | "generated" | "not_generated"
    pr_url,             \* "unset" | "url" | "None"
    isolated,           \* repo_path # original_repo_path
    headDetached,       \* workspace checkout has a detached HEAD
    tempRemote,         \* the remote workspace_<id> exists in the original repository
    branchSynced,       \* original repository's session branch was force-updated
    regFile,            \* registry.json: "missing" | "corrupt" | "valid"
    regStatus,          \* this session's entry: "absent" | "in_progress" | "completed" | "failed" | "terminated"
    exc,                \* step whose exception reached `except Exception`, or "none"
    status,             \* the finally block's local `status`; "unset" before
    updateOutcome,      \* what the final status update did
    broadcasts,         \* statuses posted to /broadcast/status-update
    calls,              \* steps invoked so far, in order
    reports,            \* reports the agents returned so far, in order
    last_logged,        \* newest entry written by _log_conversation
    review_concerns,    \* where review_data's concerns come from; "unset" before
    host,               \* "nested" when the cwd is under the nested-host prefix, else "ordinary"
    workspaceMode,      \* "unset" | "worktree" | "clone" | "original"
    setupSteps,         \* git commands workspace setup ran, with their outcome
    sessionDir,         \* /tmp/wizardry-sessions/<id>: "absent" | "present" | "archived" | "deleted"
    worktreeRegistered, \* the original repository lists a worktree for the workspace
    branchOps,          \* what was done to branches of the original repository
    shipHeads,          \* branch each shipping step used as its head
    syncLog,            \* git commands sync-back ran, in order
    repoDirRemoved,     \* the original repository directory was deleted
    archive,            \* the last archive_session call
    registry,           \* registry.json as its clients share it: missing, corrupt, or valid with entries
    clients,            \* the registry operation each client process is in
    writeOrder,         \* clients in the order their registry writes landed
    active_connections, \* ConnectionManager.active_connections, a list
    accepted,           \* WebSocket connections the manager has accepted so far
    gone,               \* connections whose client went away: a send to them raises
    handled,            \* connections whose WebSocketDisconnect the endpoint has handled
    disconnectErrors,   \* connections whose disconnect handling raised
    bcast,              \* the manager.broadcast call of each caller
    background,         \* run_workflow_background of one POST /api/sessions
    diffFiles,          \* current_diff.txt and test_planning_diff.txt of the session directory
    diffCall,           \* the newest diff preparation: role, length, write outcome, prompt
    diffCalls,          \* diff preparations so far
    transcript,         \* transcripts/<agent>.md of one agent, line by line
    logged,             \* calls of _log_conversation for that agent so far
    parsed,             \* the last parse_transcript_entries of the file: after how many appends, and its result
    requests,           \* `wizardry run` invocations and POST /api/sessions requests so far, with their answers
    constructed,        \* WorkflowOrchestrator objects constructed for them
    sessionDirsCreated, \* session directories created under /tmp/wizardry-sessions for them
    registryWrites,     \* registry entries written for them
    templates,          \* wizardry/templates/.claude as the self-test finds it
    selfTest,           \* main() of test_wizardry.py: position, checks run, warnings, result
    syncs,              \* _sync_to_original_repo of each session: position, branch, remote fetched from
    remotes,            \* remotes of the original repository: name -> workspace it points at
    trackingRefs,       \* remote-tracking refs of the original repository
    origBranches,       \* branches of the original repository updated by a sync-back
    forms               \* the New Session form of each browser session: st.session_state, submissions, orchestrator calls

vars == <<pc, running, success, result, implementation_data, review_data,
          iteration, test_plan_data, pr_url, isolated, headDetached,
          tempRemote, branchSynced, regFile, regStatus, exc, status,
          updateOutcome, broadcasts, calls, reports, last_logged,
          review_concerns, host, workspaceMode, setupSteps, sessionDir,
          worktreeRegistered, branchOps, shipHeads, syncLog, repoDirRemoved,
          archive, registry, clients, writeOrder, active_connections,
          accepted, gone, handled, disconnectErrors, bcast, background,
          diffFiles, diffCall, diffCalls, transcript,
          logged, parsed, requests, constructed, sessionDirsCreated,
          registryWrites, templates, selfTest, syncs, remotes,
          trackingRefs, origBranches, forms>>

setupVars == <<host, workspaceMode, setupSteps>>

repoVars == <<sessionDir, worktreeRegistered, branchOps, shipHeads, syncLog,
              repoDirRemoved, archive>>

registryVars == <<registry, clients, writeOrder>>

backendVars == <<active_connections, accepted, gone, handled,
                 disconnectErrors, bcast, background>>

\* the variables of the dashboard backend and of the pure-function
\* specifications
diffVars == <<diffFiles, diffCall, diffCalls>>

transcriptVars == <<transcript, logged, parsed>>

gateVars == <<requests, constructed, sessionDirsCreated, registryWrites>>

selfTestVars == <<templates, selfTest>>

syncVars == <<syncs, remotes, trackingRefs, origBranches>>

formVars == <<forms>>

auxVars ==
    <<backendVars, diffVars, transcriptVars, gateVars, selfTestVars, syncVars,
      formVars>>

Sessions == {"s1", "s2"}

Clients == {"c1", "c2"}

\* a registry file holding `{}`
Empty == [s \in Sessions |-> "absent"]

\* the registry file: absent, text that json.load rejects, or a JSON object
\* giving each known session its status
File(kind, entries) == [kind |-> kind, entries |-> entries]

Missing == File("missing", Empty)

Corrupt == File("corrupt", Empty)

Valid(entries) == File("valid", entries)

\* what an operation does once it has read the file: the registry it
\* works on, whether it writes the file and the entries it writes, what it
\* gives its caller, and whether it raises
Outcome(snap, writes, write, res, raised) ==
    [snap |-> snap, writes |-> writes, write |-> write, result |-> res,
     raised |-> raised]

\* an operation that ends without writing
NoWrite(snap, res, raised) == Outcome(snap, FALSE, snap, res, raised)

\* an operation that goes on to write the entries `write`
Write(snap, write, res) == Outcome(snap, TRUE, write, res, FALSE)

\* a client process that has not started its operation
Idle ==
    [pc |-> "idle", op |-> "none", sid |-> "none", saw |-> "none",
     readAt |-> 0, out |-> NoWrite(Empty, "none", FALSE),
     wrote |-> "no"]

\* one operation on a branch of the original repository.  Branches:
\* "session" is wizardry-<workflow_id>, "base" the session's base branch,
\* "head" the branch the original repository had checked out, "other" any
\* other local branch.
Op(op, branch) == [op |-> op, branch |-> branch]

\* archive_session has not run
NotArchived ==
    [result |-> "not_run", found |-> FALSE, seen |-> "absent",
     ran |-> {}, failed |-> {}, deleted |-> {}, cmds |-> <<>>]

max_iterations == 3

Report(agent, report) == [agent |-> agent, report |-> report]

\* what the extraction finds in a response: a block that parses, no block,
\* or a block whose JSON does not parse
Extraction(resp) ==
    IF resp \in {"no_block", "bad_json"} THEN resp ELSE "block"

\* one transcript entry: which agent answered, the response as written to
\* the transcript, and what the extraction finds in it
Logged(agent, resp) ==
    [agent |-> agent, found |-> Extraction(resp), resp |-> resp]

\* what the tail and length of a response without a review block look like
ResponseShapes == {"cut_off", "long_open", "plain"}

ImplementerResponses == {"ready", "not_ready", "no_flag", "no_block", "bad_json"}
ReviewerResponses    == {"approve", "reject", "no_flag", "no_block", "bad_json"}
TestPlannerResponses == {"plan", "no_block", "bad_json"}

\* the WebSocket connections that may open, named in the order in which
\* the manager accepts them
ConnOrder == <<"w1", "w2">>

Conns == {ConnOrder[i] : i \in DOMAIN ConnOrder}

\* the callers of manager.broadcast: the background workflow task and the
\* endpoints that announce a status or an archival
Callers == {"bg", "ep"}

\* a JSON message as the dashboard reads it: its type and, for
\* workflow_completed, the success flag
Message(type, flag) == [type |-> type, success |-> flag]

\* a caller that has no broadcast in progress
NoBroadcast ==
    [pc        |-> "idle",
     msg       |-> Message("none", "none"),
     idx       |-> 0,
     conn      |-> "none",
     start     |-> <<>>,
     failed    |-> {},
     delivered |-> {},
     removed   |-> {}]

\* the dashboard backend right after start-up: no connection, no request
BackendIdle ==
    /\ active_connections = <<>>
    /\ accepted = {}
    /\ gone = {}
    /\ handled = {}
    /\ disconnectErrors = {}
    /\ bcast = [t \in Callers |-> NoBroadcast]
    /\ background = [pc |-> "not_started", outcome |-> "none",
                     messages |-> <<>>]

\* a file of the session directory: whether it exists and how many
\* characters of the diff it holds
DiffFile(exists, len) == [exists |-> exists, len |-> len]

\* the diff as the prompt shows it: inline, as a pointer to a file, or
\* truncated; `literal` is how many leading characters of the diff the
\* prompt contains, `file` the file it points to
Prompt(kind, literal, file) ==
    [kind |-> kind, literal |-> literal, file |-> file]

\* no agent has been handed a diff yet
DiffIdle ==
    /\ diffFiles = [f \in {"current_diff.txt", "test_planning_diff.txt"}
                       |-> DiffFile(FALSE, 0)]
    /\ diffCall = [role |-> "none", len |-> 0, write |-> "none",
                   prompt |-> Prompt("none", 0, "none")]
    /\ diffCalls = 0

\* no transcript has been written or parsed yet
TranscriptIdle ==
    /\ transcript = <<>>
    /\ logged = 0
    /\ parsed = [at |-> 0, entries |-> <<>>]

\* no workflow has been asked for yet
GateIdle ==
    /\ requests = <<>>
    /\ constructed = 0
    /\ sessionDirsCreated = 0
    /\ registryWrites = 0

\* the files test_template_structure requires under templates/.claude
RequiredFiles ==
    {"agents/implementer.json", "agents/reviewer.json", "settings.json",
     "commands/workflow.md", "hooks/post_tool.sh", "hooks/pre_tool.sh",
     "hooks/transcript_logger.sh"}

\* the hook scripts of the bundle
Hooks == {"hooks/post_tool.sh", "hooks/pre_tool.sh",
          "hooks/transcript_logger.sh"}

\* the agent configurations test_agent_configs reads
AgentFiles == {"agents/implementer.json", "agents/reviewer.json"}

\* a bundle: the required files it lacks, what each agent configuration
\* holds, and the files without the executable bit
Bundle(missing, config, nonexec) ==
    [missing |-> missing, config |-> config, nonexec |-> nonexec]

\* the bundle as shipped: complete, valid, hooks executable
CompleteBundle == Bundle({}, [a \in AgentFiles |-> "valid"], {})

\* main() has not been called
SelfTestIdle ==
    selfTest = [pc |-> "start", ran |-> <<>>, all_passed |-> TRUE,
                warnings |-> {}, returned |-> "none"]

\* the sessions that sync back to one original repository: A and B run
\* now, P ran earlier
SyncSessions == {"A", "B"}

EarlierSession == "P"

\* _generate_workflow_id: f"workflow-{timestamp}-{random_suffix}", as the
\* sequence of its characters with the timestamp and the suffix as one
\* element each
workflow_id(s) ==
    <<"w", "o", "r", "k", "f", "l", "o", "w", "-", "ts_" \o s, "-", "rnd_" \o s>>

\* f"workspace_{self.workflow_id[:8]}"
workspace_remote_name(id) == <<"workspace_">> \o SubSeq(id, 1, 8)

RemoteNames ==
    {workspace_remote_name(workflow_id(s)) :
        s \in SyncSessions \cup {EarlierSession}}

\* the branch a workspace has checked out when the sync-back starts: the
\* session's own wizardry-<workflow_id>, or a branch the agent checked out
SessionBranch(s) == "wizardry-" \o s

SyncBranches == {SessionBranch(s) : s \in SyncSessions} \cup {"feature"}

NoRemotes == [n \in RemoteNames |-> "none"]

\* a remote-tracking ref refs/remotes/<remote>/<branch> and the workspace
\* its commit was fetched from
TrackingRef(remote, branch, from) ==
    [remote |-> remote, branch |-> branch, from |-> from]

NotSynced == [pc |-> "idle", branch |-> "none", fetchedFrom |-> "none"]

\* no sync-back has started and no branch was updated by one
SyncIdle ==
    /\ syncs = [s \in SyncSessions |-> NotSynced]
    /\ trackingRefs = {}
    /\ origBranches = [b \in SyncBranches |-> [from |-> "none", by |-> "none"]]

\* the browser sessions of the local dashboard, each with its own
\* st.session_state
Browsers == {"t1", "t2"}

\* how many times a browser session submits the form
MaxSubmissions == 3

\* a browser session that has not submitted the form: `workflow_running` is
\* not in st.session_state
NotSubmitted ==
    [pc |-> "idle", workflow_running |-> "unset", submitted |-> 0,
     valid |-> 0, invoked |-> 0, shown |-> "none"]

FormIdle == forms = [t \in Browsers |-> NotSubmitted]

AuxInit ==
    /\ BackendIdle /\ DiffIdle /\ TranscriptIdle /\ GateIdle
    /\ templates = CompleteBundle /\ SelfTestIdle
    /\ SyncIdle /\ remotes = NoRemotes
    /\ FormIdle

SessionInit ==
    /\ pc = "setup"
    /\ running = "none"
    /\ success = "unbound"
    /\ result = "pending"
    /\ implementation_data = "unset"
    /\ review_data = "unset"
    /\ iteration = 0
    /\ test_plan_data = "unset"
    /\ pr_url = "unset"
    /\ isolated = FALSE
    /\ headDetached = FALSE
    /\ tempRemote = FALSE
    /\ branchSynced = FALSE
    /\ regFile \in {"missing", "corrupt", "valid"}
    /\ regStatus = "absent"
    /\ exc = "none"
    /\ status = "unset"
    /\ updateOutcome = "not_run"
    /\ broadcasts = <<>>
    /\ calls = <<>>
    /\ reports = <<>>
    /\ last_logged = Logged("none", "no_block")
    /\ review_concerns = "unset"
    /\ host \in {"nested", "ordinary"}
    /\ workspaceMode = "unset"
    /\ setupSteps = <<>>
    /\ sessionDir = "absent"
    /\ worktreeRegistered = FALSE
    /\ branchOps = {}
    /\ shipHeads = {}
    /\ syncLog = <<>>
    /\ repoDirRemoved = FALSE
    /\ archive = NotArchived

Init ==
    /\ SessionInit
    /\ registry = Missing
    /\ clients = [c \in Clients |-> Idle]
    /\ writeOrder = <<>>
    /\ AuxInit

(***************************************************************************)
(* Structured-output extraction of the agents.                             *)
(***************************************************************************)

\* _validate_implementation_changes reads repo.active_branch.name first; with
\* a detached HEAD that read raises, otherwise the function only prints.
ValidationRaises(detached) == detached

\* the initial run with the pessimistic default of the feedback run
ImplementerReport_Pessimistic(resp, detached) ==
    IF resp = "no_block" THEN "not_ready"
    ELSE IF resp = "bad_json" THEN "not_ready"
    ELSE IF ValidationRaises(detached) THEN "not_ready"
    ELSE IF resp = "ready" THEN "ready"
    ELSE "not_ready"

\* _run_implementer, "Extract structured output": the parsed block's
\* ready_for_review, and the optimistic default when no block is found or
\* anything in the try raises.
ImplementerReport(resp, detached) ==
    IF resp = "no_block" THEN "ready"
    ELSE IF resp = "bad_json" THEN "ready"
    ELSE IF ValidationRaises(detached) THEN "ready"
    ELSE IF resp = "ready" THEN "ready"
    ELSE "not_ready"

\* _run_implementer_with_feedback: same extraction, pessimistic default.
FeedbackReport(resp, detached) ==
    IF resp = "no_block" THEN "not_ready"
    ELSE IF resp = "bad_json" THEN "not_ready"
    ELSE IF ValidationRaises(detached) THEN "not_ready"
    ELSE IF resp = "ready" THEN "ready"
    ELSE "not_ready"

\* a reviewer extraction that approves when it finds nothing to parse
ReviewReport_Optimistic(resp) ==
    IF resp \in {"approve", "no_block", "bad_json"}
    THEN "approved" ELSE "rejected"

\* _run_reviewer: review_data.get("approval", False) of the parsed block,
\* approval False when no block is found or parsing raises.
ReviewReport(resp) ==
    IF resp = "approve" THEN "approved" ELSE "rejected"

\* _run_reviewer: the concerns of the report.  A parsed block brings its
\* own; without a block the concern names a cut-off ("Let me" / "I'll" in
\* the last 100 characters), a truncated (over 1000 characters, no closing
\* fence) or an absent structured output; a parse error is named as such.
ReviewConcern(resp, shape) ==
    IF resp = "bad_json" THEN "parse_error"
    ELSE IF resp # "no_block" THEN "from_block"
    ELSE IF shape = "cut_off" THEN "cut_off"
    ELSE IF shape = "long_open" THEN "truncated"
    ELSE "no_structured_output"

\* _run_test_planner: a parsed block is stamped test_plan_generated = True,
\* everything else returns test_plan_generated = False.
TestPlanReport(resp) ==
    IF resp = "plan" THEN "generated" ELSE "not_generated"

\* the loop condition with `<` for `<=`
LoopCondition_Strict(rd, it) ==
    rd # "approved" /\ it < max_iterations

\* the `while` condition of the review loop
LoopCondition(rd, it) ==
    rd # "approved" /\ it <= max_iterations

\* a finally block that records `completed` whatever `success` is
FinalStatus_AlwaysCompleted(s, tp) == "completed"

\* the status the finally block computes from `success`
FinalStatus(s, tp) ==
    IF s = "True"
    THEN (IF tp = "generated" THEN "completed" ELSE "completed")
    ELSE "failed"

(***************************************************************************)
(* run_workflow                                                            *)
(***************************************************************************)

(***************************************************************************)
(* Workspace setup, run by the constructor                                 *)
(***************************************************************************)

Step(cmd, outcome) == [cmd |-> cmd, outcome |-> outcome]

\* _fallback_clone_method: git clone into <session_dir>/workspace_repo; a
\* non-zero exit returns the original repository path
fallback_clone_method(cl) ==
    [mode  |-> IF cl = "ok" THEN "clone" ELSE "original",
     steps |-> <<Step("clone", cl)>>]

\* _setup_local_worktree: git worktree add; a non-zero exit returns the
\* original repository path, anything else the workspace path
setup_local_worktree(wt) ==
    IF wt = "fail"
    THEN [mode |-> "original", steps |-> <<Step("worktree_add", wt)>>]
    ELSE [mode |-> "worktree", steps |-> <<Step("worktree_add", wt)>>]

\* _setup_workspace_repo: under the nested host a failed worktree add, or
\* one that left no directory, goes to the clone fallback; any other host
\* goes to _setup_local_worktree
setup_workspace_repo(h, wt, cl) ==
    IF h = "nested"
    THEN IF wt = "ok"
         THEN [mode |-> "worktree", steps |-> <<Step("worktree_add", wt)>>]
         ELSE [mode  |-> fallback_clone_method(cl).mode,
               steps |-> <<Step("worktree_add", wt)>>
                            \o fallback_clone_method(cl).steps]
    ELSE setup_local_worktree(wt)

\* self.repo_path = self._setup_workspace_repo(); self.repo = Repo(self.repo_path).
\* A worktree checkout is on its own new branch; a clone and the original
\* repository have whatever HEAD the original repository has.  Opening a
\* workspace path that does not exist raises out of the constructor.
SetupWorkspaceRepo ==
    /\ pc = "setup"
    /\ \E wt \in {"ok", "dir_missing", "fail"}, cl \in {"ok", "fail"},
          d \in BOOLEAN :
          LET s == setup_workspace_repo(host, wt, cl)
          IN  /\ workspaceMode' = s.mode
              /\ setupSteps' = s.steps
              /\ isolated' = (s.mode # "original")
              /\ headDetached' = IF s.mode = "worktree" THEN FALSE ELSE d
              /\ sessionDir' = "present"
              /\ worktreeRegistered' = (wt # "fail")
              /\ branchOps' = IF wt # "fail" THEN {Op("create", "session")}
                              ELSE {}
              /\ pc' = IF s.mode = "worktree" /\ wt = "dir_missing"
                       THEN "not_constructed" ELSE "register"
    /\ UNCHANGED <<running, success, result, implementation_data, review_data,
                   iteration, test_plan_data, pr_url, tempRemote, branchSynced,
                   regFile, regStatus, exc, status, updateOutcome, broadcasts,
                   calls, reports, last_logged, review_concerns, host>>
    /\ UNCHANGED <<shipHeads, syncLog, repoDirRemoved, archive>>
    /\ UNCHANGED registryVars
    /\ UNCHANGED auxVars

\* self._register_session(): read the registry (missing or corrupt file
\* reads as empty), add the entry with status in_progress, write it back.
\* Only FileNotFoundError and JSONDecodeError are caught; the write is
\* outside any try.
RegisterSession ==
    /\ pc = "register"
    /\ calls' = Append(calls, "register")
    /\ \E rd \in {"ok", "io_error"},
          wr \in {"ok", "fail_unchanged", "fail_truncated"} :
          IF rd = "io_error"
          THEN /\ pc' = "except"
               /\ exc' = "register"
               /\ UNCHANGED <<regFile, regStatus>>
          ELSE CASE wr = "ok" ->
                      /\ regFile' = "valid"
                      /\ regStatus' = "in_progress"
                      /\ pc' = "implementer"
                      /\ UNCHANGED exc
                 [] wr = "fail_unchanged" ->
                      /\ UNCHANGED <<regFile, regStatus>>
                      /\ pc' = "except"
                      /\ exc' = "register"
                 [] wr = "fail_truncated" ->
                      /\ regFile' = "corrupt"
                      /\ regStatus' = "absent"
                      /\ pc' = "except"
                      /\ exc' = "register"
    /\ UNCHANGED <<reports, status, running, success, result, implementation_data, review_data,
                   iteration, test_plan_data, pr_url, isolated, headDetached,
                   tempRemote, branchSynced, updateOutcome, broadcasts>>
    /\ UNCHANGED <<last_logged, review_concerns>>
    /\ UNCHANGED setupVars
    /\ UNCHANGED repoVars
    /\ UNCHANGED registryVars
    /\ UNCHANGED auxVars

\* `await self._run_implementer()` up to the suspension on the agent runtime
StartImplementer ==
    /\ pc = "implementer"
    /\ running = "none"
    /\ running' = "implementer"
    /\ calls' = Append(calls, "implementer")
    /\ pc' = "await_implementer"
    /\ UNCHANGED <<reports, exc, status, success, result, implementation_data, review_data,
                   iteration, test_plan_data, pr_url, isolated, headDetached,
                   tempRemote, branchSynced, regFile, regStatus,
                   updateOutcome, broadcasts>>
    /\ UNCHANGED <<last_logged, review_concerns>>
    /\ UNCHANGED setupVars
    /\ UNCHANGED repoVars
    /\ UNCHANGED registryVars
    /\ UNCHANGED auxVars

\* the agent's response has been consumed: extract the report, then
\* `if not implementation_data.get("ready_for_review", False): return False`
ReturnImplementer ==
    /\ pc = "await_implementer"
    /\ running = "implementer"
    /\ running' = "none"
    /\ \E resp \in ImplementerResponses \cup {"error"}, d \in BOOLEAN :
          /\ headDetached' = d
          /\ IF resp = "error"
             THEN /\ pc' = "except"
                  /\ exc' = "implementer"
                  /\ UNCHANGED <<implementation_data, reports, last_logged>>
             ELSE /\ implementation_data' = ImplementerReport(resp, d)
                  /\ reports' = Append(reports,
                         Report("implementer", ImplementerReport(resp, d)))
                  /\ last_logged' = Logged("implementer", resp)
                  /\ UNCHANGED exc
                  /\ pc' = IF ImplementerReport(resp, d) = "ready"
                           THEN "reviewer" ELSE "finally"
    /\ UNCHANGED <<status, success, result, review_data, iteration, test_plan_data,
                   pr_url, isolated, tempRemote, branchSynced, regFile,
                   regStatus, updateOutcome, broadcasts, calls>>
    /\ UNCHANGED review_concerns
    /\ UNCHANGED setupVars
    /\ UNCHANGED repoVars
    /\ UNCHANGED registryVars
    /\ UNCHANGED auxVars

\* _run_reviewer up to its suspension: repo.active_branch.name is read
\* outside any try, the diff retrieval is fully guarded.
InvokeReviewer(at, next) ==
    /\ pc = at
    /\ running = "none"
    /\ calls' = Append(calls, "reviewer")
    /\ IF headDetached
       THEN /\ pc' = "except"
            /\ exc' = "reviewer"
            /\ UNCHANGED running
       ELSE /\ pc' = next
            /\ running' = "reviewer"
            /\ UNCHANGED exc
    /\ UNCHANGED <<reports, status, success, result, implementation_data, review_data,
                   iteration, test_plan_data, pr_url, isolated, headDetached,
                   tempRemote, branchSynced, regFile, regStatus,
                   updateOutcome, broadcasts>>
    /\ UNCHANGED <<last_logged, review_concerns>>
    /\ UNCHANGED setupVars
    /\ UNCHANGED repoVars
    /\ UNCHANGED registryVars
    /\ UNCHANGED auxVars

\* the reviewer's response has been consumed; `it` is the counter's new value
ReviewerReturns(at, it) ==
    /\ pc = at
    /\ running = "reviewer"
    /\ running' = "none"
    /\ \E resp \in ReviewerResponses \cup {"error"}, d \in BOOLEAN,
          shape \in ResponseShapes :
          /\ headDetached' = d
          /\ IF resp = "error"
             THEN /\ pc' = "except"
                  /\ exc' = "reviewer"
                  /\ UNCHANGED <<review_data, iteration, reports, last_logged,
                                 review_concerns>>
             ELSE /\ review_data' = ReviewReport(resp)
                  /\ reports' = Append(reports,
                         Report("reviewer", ReviewReport(resp)))
                  /\ last_logged' = Logged("reviewer", resp)
                  /\ review_concerns' = ReviewConcern(resp, shape)
                  /\ UNCHANGED exc
                  /\ iteration' = it
                  /\ pc' = "loop_test"
    /\ UNCHANGED <<status, success, result, implementation_data, test_plan_data,
                   pr_url, isolated, tempRemote, branchSynced, regFile,
                   regStatus, updateOutcome, broadcasts, calls>>
    /\ UNCHANGED setupVars
    /\ UNCHANGED repoVars
    /\ UNCHANGED registryVars
    /\ UNCHANGED auxVars

\* first review, then `max_iterations = 3; iteration = 1`
StartReviewer == InvokeReviewer("reviewer", "await_reviewer")

ReturnReviewer == ReviewerReturns("await_reviewer", 1)

\* the re-review at the end of the loop body, then `iteration += 1`
StartReReview == InvokeReviewer("rereview", "await_rereview")

ReturnReReview == ReviewerReturns("await_rereview", iteration + 1)

\* `while not review_data.get("approval", False) and iteration <= max_iterations`
LoopTest ==
    /\ pc = "loop_test"
    /\ pc' = IF LoopCondition(review_data, iteration)
             THEN "feedback" ELSE "after_loop"
    /\ UNCHANGED <<reports, exc, status, running, success, result, implementation_data, review_data,
                   iteration, test_plan_data, pr_url, isolated, headDetached,
                   tempRemote, branchSynced, regFile, regStatus,
                   updateOutcome, broadcasts, calls>>
    /\ UNCHANGED <<last_logged, review_concerns>>
    /\ UNCHANGED setupVars
    /\ UNCHANGED repoVars
    /\ UNCHANGED registryVars
    /\ UNCHANGED auxVars

\* `await self._run_implementer_with_feedback(feedback_prompt)` up to the
\* suspension
StartFeedback ==
    /\ pc = "feedback"
    /\ running = "none"
    /\ running' = "implementer_feedback"
    /\ calls' = Append(calls, "feedback")
    /\ pc' = "await_feedback"
    /\ UNCHANGED <<reports, exc, status, success, result, implementation_data, review_data,
                   iteration, test_plan_data, pr_url, isolated, headDetached,
                   tempRemote, branchSynced, regFile, regStatus,
                   updateOutcome, broadcasts>>
    /\ UNCHANGED <<last_logged, review_concerns>>
    /\ UNCHANGED setupVars
    /\ UNCHANGED repoVars
    /\ UNCHANGED registryVars
    /\ UNCHANGED auxVars

\* a feedback run whose report is not tested before the re-review
ReturnFeedback_NoBreak ==
    /\ pc = "await_feedback"
    /\ running = "implementer_feedback"
    /\ running' = "none"
    /\ \E resp \in ImplementerResponses \cup {"error"}, d \in BOOLEAN :
          /\ headDetached' = d
          /\ IF resp = "error"
             THEN /\ pc' = "except"
                  /\ exc' = "feedback"
                  /\ UNCHANGED <<implementation_data, reports, last_logged>>
             ELSE /\ implementation_data' = FeedbackReport(resp, d)
                  /\ reports' = Append(reports,
                         Report("feedback", FeedbackReport(resp, d)))
                  /\ last_logged' = Logged("feedback", resp)
                  /\ UNCHANGED exc
                  /\ pc' = "rereview"
    /\ UNCHANGED <<status, success, result, review_data, iteration, test_plan_data,
                   pr_url, isolated, tempRemote, branchSynced, regFile,
                   regStatus, updateOutcome, broadcasts, calls>>
    /\ UNCHANGED review_concerns
    /\ UNCHANGED setupVars
    /\ UNCHANGED repoVars
    /\ UNCHANGED registryVars
    /\ UNCHANGED auxVars

\* the feedback run returned: `if not ready_for_review: break`
ReturnFeedback ==
    /\ pc = "await_feedback"
    /\ running = "implementer_feedback"
    /\ running' = "none"
    /\ \E resp \in ImplementerResponses \cup {"error"}, d \in BOOLEAN :
          /\ headDetached' = d
          /\ IF resp = "error"
             THEN /\ pc' = "except"
                  /\ exc' = "feedback"
                  /\ UNCHANGED <<implementation_data, reports, last_logged>>
             ELSE /\ implementation_data' = FeedbackReport(resp, d)
                  /\ reports' = Append(reports,
                         Report("feedback", FeedbackReport(resp, d)))
                  /\ last_logged' = Logged("feedback", resp)
                  /\ UNCHANGED exc
                  /\ pc' = IF FeedbackReport(resp, d) = "ready"
                           THEN "rereview" ELSE "after_loop"
    /\ UNCHANGED <<status, success, result, review_data, iteration, test_plan_data,
                   pr_url, isolated, tempRemote, branchSynced, regFile,
                   regStatus, updateOutcome, broadcasts, calls>>
    /\ UNCHANGED review_concerns
    /\ UNCHANGED setupVars
    /\ UNCHANGED repoVars
    /\ UNCHANGED registryVars
    /\ UNCHANGED auxVars

\* the approval branch entered without testing the approval
AfterLoop_Unconditional ==
    /\ pc = "after_loop"
    /\ test_plan_data' = "empty"
    /\ pc' = "test_planner"
    /\ UNCHANGED <<success, running, result, implementation_data, review_data,
                   iteration, pr_url, isolated, headDetached, tempRemote,
                   branchSynced, regFile, regStatus, exc, status,
                   updateOutcome, broadcasts, calls, reports>>
    /\ UNCHANGED <<last_logged, review_concerns>>
    /\ UNCHANGED setupVars
    /\ UNCHANGED repoVars
    /\ UNCHANGED registryVars
    /\ UNCHANGED auxVars

\* `if review_data.get("approval", False): ... else: success = False`
AfterLoop ==
    /\ pc = "after_loop"
    /\ IF review_data = "approved"
       THEN /\ test_plan_data' = "empty"
            /\ pc' = "test_planner"
            /\ UNCHANGED success
       ELSE /\ success' = "False"
            /\ pc' = "finally"
            /\ UNCHANGED test_plan_data
    /\ UNCHANGED <<reports, exc, status, running, result, implementation_data, review_data,
                   iteration, pr_url, isolated, headDetached, tempRemote,
                   branchSynced, regFile, regStatus, updateOutcome,
                   broadcasts, calls>>
    /\ UNCHANGED <<last_logged, review_concerns>>
    /\ UNCHANGED setupVars
    /\ UNCHANGED repoVars
    /\ UNCHANGED registryVars
    /\ UNCHANGED auxVars

\* _run_test_planner up to its suspension, inside run_workflow's inner try:
\* the unguarded repo.active_branch.name read raises into `except Exception`
\* of the test-planning block, and the workflow goes on.
StartTestPlanner ==
    /\ pc = "test_planner"
    /\ running = "none"
    /\ calls' = Append(calls, "test_planner")
    /\ IF headDetached
       THEN /\ pc' = "sync"
            /\ UNCHANGED running
       ELSE /\ pc' = "await_test_planner"
            /\ running' = "test_planner"
    /\ UNCHANGED <<reports, exc, status, success, result, implementation_data, review_data,
                   iteration, test_plan_data, pr_url, isolated, headDetached,
                   tempRemote, branchSynced, regFile, regStatus,
                   updateOutcome, broadcasts>>
    /\ UNCHANGED <<last_logged, review_concerns>>
    /\ UNCHANGED setupVars
    /\ UNCHANGED repoVars
    /\ UNCHANGED registryVars
    /\ UNCHANGED auxVars

\* the test planner returned or raised; either way the workflow continues
ReturnTestPlanner ==
    /\ pc = "await_test_planner"
    /\ running = "test_planner"
    /\ running' = "none"
    /\ \E resp \in TestPlannerResponses \cup {"error"}, d \in BOOLEAN :
          /\ headDetached' = d
          /\ test_plan_data' = IF resp = "error" THEN test_plan_data
                               ELSE TestPlanReport(resp)
          /\ last_logged' = IF resp = "error" THEN last_logged
                           ELSE Logged("test_planner", resp)
          /\ reports' = IF resp = "error" THEN reports
                        ELSE Append(reports,
                                Report("test_planner", TestPlanReport(resp)))
    /\ pc' = "sync"
    /\ UNCHANGED <<exc, status, success, result, implementation_data, review_data,
                   iteration, pr_url, isolated, tempRemote, branchSynced,
                   regFile, regStatus, updateOutcome, broadcasts, calls>>
    /\ UNCHANGED review_concerns
    /\ UNCHANGED setupVars
    /\ UNCHANGED repoVars
    /\ UNCHANGED registryVars
    /\ UNCHANGED auxVars
\* The git commands of _sync_to_original_repo after the active-branch read:
\* remote add (exit status ignored), fetch and branch -f (check=True, a
\* non-zero exit raises CalledProcessError and skips the rest), remote
\* remove (exit status ignored).  Yields <<tempRemote, branchSynced>>.
SyncCommands(add, fetch, branch, remove) ==
    LET remoteExists == tempRemote \/ add = "ok"
    IN  IF ~remoteExists \/ fetch = "fail" THEN <<remoteExists, branchSynced>>
        ELSE IF branch = "fail" THEN <<remoteExists, branchSynced>>
        ELSE IF remove = "fail" THEN <<remoteExists, TRUE>>
        ELSE <<FALSE, TRUE>>

\* self.repo.active_branch.name in the workspace: a worktree is on the
\* session's branch, a clone and the original repository are on the branch
\* the original repository had checked out
ActiveBranch(mode) == IF mode = "worktree" THEN "session" ELSE "head"

\* the git commands _sync_to_original_repo runs: check=True on fetch and on
\* branch -f ends the sequence at the first non-zero exit
SyncLog(add, fetch, branch) ==
    LET remoteExists == tempRemote \/ add = "ok"
    IN  IF ~remoteExists \/ fetch = "fail" THEN <<"remote_add", "fetch">>
        ELSE IF branch = "fail" THEN <<"remote_add", "fetch", "branch_f">>
        ELSE <<"remote_add", "fetch", "branch_f", "remote_remove">>

\* await self._sync_to_original_repo(): nothing to do without a separate
\* workspace; otherwise everything, the active-branch read and a failure to
\* start git included, is inside the try, and both handlers only print.
SyncToOriginalRepo ==
    /\ pc = "sync"
    /\ calls' = Append(calls, "sync")
    /\ IF ~isolated \/ headDetached
       THEN UNCHANGED <<tempRemote, branchSynced, syncLog, shipHeads,
                        branchOps>>
       ELSE \E spawn \in {"ok", "fail"},
               add \in {"ok", "fail"}, fetch \in {"ok", "fail"},
               branch \in {"ok", "fail"}, remove \in {"ok", "fail"} :
               IF spawn = "fail"
               THEN UNCHANGED <<tempRemote, branchSynced, syncLog, shipHeads,
                                branchOps>>
               ELSE /\ tempRemote' = SyncCommands(add, fetch, branch, remove)[1]
                    /\ branchSynced' = SyncCommands(add, fetch, branch, remove)[2]
                    /\ syncLog' = SyncLog(add, fetch, branch)
                    /\ shipHeads' = shipHeads \cup
                          {[step |-> "sync", head |-> ActiveBranch(workspaceMode)]}
                    /\ branchOps' =
                          IF SyncCommands(add, fetch, branch, remove)[2]
                          THEN branchOps \cup
                                 {Op("force_update", ActiveBranch(workspaceMode))}
                          ELSE branchOps
    /\ pc' = "create_pr"
    /\ UNCHANGED <<reports, exc, status, running, success, result, implementation_data, review_data,
                   iteration, test_plan_data, pr_url, isolated, headDetached,
                   regFile, regStatus, updateOutcome, broadcasts>>
    /\ UNCHANGED <<last_logged, review_concerns>>
    /\ UNCHANGED setupVars
    /\ UNCHANGED <<sessionDir, worktreeRegistered, repoDirRemoved, archive>>
    /\ UNCHANGED registryVars
    /\ UNCHANGED auxVars

\* pr_url = self._create_pr(), then `success = True`.  _create_pr reads
\* repo.active_branch.name before its try; the gh call is guarded and
\* returns the URL or None.
CreatePr ==
    /\ pc = "create_pr"
    /\ calls' = Append(calls, "create_pr")
    /\ IF headDetached
       THEN /\ pc' = "except"
            /\ exc' = "create_pr"
            /\ UNCHANGED <<pr_url, success, shipHeads>>
       ELSE \E gh \in {"ok", "nonzero", "exception"} :
               /\ pr_url' = IF gh = "ok" THEN "url" ELSE "None"
               /\ success' = "True"
               /\ shipHeads' = shipHeads \cup
                     {[step |-> "create_pr", head |-> ActiveBranch(workspaceMode)]}
               /\ pc' = "finally"
               /\ UNCHANGED exc
    /\ UNCHANGED <<reports, status, running, result, implementation_data, review_data,
                   iteration, test_plan_data, isolated, headDetached,
                   tempRemote, branchSynced, regFile, regStatus,
                   updateOutcome, broadcasts>>
    /\ UNCHANGED <<last_logged, review_concerns>>
    /\ UNCHANGED setupVars
    /\ UNCHANGED <<sessionDir, worktreeRegistered, branchOps, syncLog, repoDirRemoved, archive>>
    /\ UNCHANGED registryVars
    /\ UNCHANGED auxVars

\* `except Exception as e: success = False`
ExceptHandler ==
    /\ pc = "except"
    /\ success' = "False"
    /\ pc' = "finally"
    /\ UNCHANGED <<reports, exc, status, running, result, implementation_data, review_data,
                   iteration, test_plan_data, pr_url, isolated, headDetached,
                   tempRemote, branchSynced, regFile, regStatus,
                   updateOutcome, broadcasts, calls>>
    /\ UNCHANGED <<last_logged, review_concerns>>
    /\ UNCHANGED setupVars
    /\ UNCHANGED repoVars
    /\ UNCHANGED registryVars
    /\ UNCHANGED auxVars

\* _update_session_status without its `except Exception: pass`: a failed
\* read or write propagates into run_workflow's finally block
UpdateSessionStatus_Unguarded(st, rd, wr, bc) ==
    IF rd = "io_error" \/ regFile # "valid"
    THEN <<regFile, regStatus, "read_failed", broadcasts, TRUE>>
    ELSE IF regStatus = "absent"
    THEN <<regFile, regStatus, "absent", broadcasts, FALSE>>
    ELSE IF wr = "fail_unchanged"
    THEN <<regFile, regStatus, "write_failed", broadcasts, TRUE>>
    ELSE IF wr = "fail_truncated"
    THEN <<"corrupt", "absent", "write_failed", broadcasts, TRUE>>
    ELSE IF bc = "fail"
    THEN <<"valid", st, "broadcast_failed", broadcasts, FALSE>>
    ELSE <<"valid", st, "ok", Append(broadcasts, st), FALSE>>

\* self._update_session_status(status) with _broadcast_status_update: one
\* try around read, membership test, write and broadcast; the broadcast
\* has its own try.  Yields <<file, entry, outcome, broadcasts, raises>>;
\* `except Exception: pass` makes the last component FALSE on every path.
UpdateSessionStatus(st, rd, wr, bc) ==
    IF rd = "io_error" \/ regFile # "valid"
    THEN <<regFile, regStatus, "read_failed", broadcasts, FALSE>>
    ELSE IF regStatus = "absent"
    THEN <<regFile, regStatus, "absent", broadcasts, FALSE>>
    ELSE IF wr = "fail_unchanged"
    THEN <<regFile, regStatus, "write_failed", broadcasts, FALSE>>
    ELSE IF wr = "fail_truncated"
    THEN <<"corrupt", "absent", "write_failed", broadcasts, FALSE>>
    ELSE IF bc = "fail"
    THEN <<"valid", st, "broadcast_failed", broadcasts, FALSE>>
    ELSE <<"valid", st, "ok", Append(broadcasts, st), FALSE>>

\* the finally block and `return success`.  `success` is assigned only at
\* the end of the try body and in the except handler, so after the early
\* `return False` the test `if success:` raises UnboundLocalError, which
\* replaces the pending return value.
Finally ==
    /\ pc = "finally"
    /\ pc' = "done"
    /\ IF success = "unbound"
       THEN /\ result' = "raised"
            /\ UNCHANGED <<status, regFile, regStatus, updateOutcome,
                           broadcasts>>
       ELSE \E rd \in {"ok", "io_error"},
               wr \in {"ok", "fail_unchanged", "fail_truncated"},
               bc \in {"ok", "fail"} :
               LET u == UpdateSessionStatus(FinalStatus(success, test_plan_data),
                                            rd, wr, bc)
               IN  /\ status' = FinalStatus(success, test_plan_data)
                   /\ regFile' = u[1]
                   /\ regStatus' = u[2]
                   /\ updateOutcome' = u[3]
                   /\ broadcasts' = u[4]
                   /\ result' = IF u[5] THEN "raised" ELSE success
    /\ UNCHANGED <<reports, exc, running, success, implementation_data, review_data,
                   iteration, test_plan_data, pr_url, isolated, headDetached,
                   tempRemote, branchSynced, calls>>
    /\ UNCHANGED <<last_logged, review_concerns>>
    /\ UNCHANGED setupVars
    /\ UNCHANGED repoVars
    /\ UNCHANGED registryVars
    /\ UNCHANGED auxVars

(***************************************************************************)
(* Commands issued for the session after its workflow has ended:           *)
(* archive_session, the CLI's kill and the local dashboard's kill_session  *)
(***************************************************************************)

\* wizardry-<workflow_id> is a local branch of the original repository
SessionBranchExists ==
    /\ Op("create", "session") \in branchOps
    /\ Op("delete", "session") \notin branchOps

\* the registry read that finds this session's entry
EntryFound(rd) == rd = "ok" /\ regFile = "valid" /\ regStatus # "absent"

\* the registry after a whole-file write that sets this session's entry to
\* `entry`: <<file, entry>>
WriteRegistry(entry, wr) ==
    IF wr = "ok" THEN <<"valid", entry>>
    ELSE IF wr = "fail_truncated" THEN <<"corrupt", "absent">>
    ELSE <<regFile, regStatus>>

\* archive_session step 2, the condition: cleanup requested, a repository
\* path recorded (registration always records one) and a final status
BranchCleanupApplies(cleanup_branch, st) ==
    cleanup_branch /\ st \in {"completed", "failed", "terminated"}

\* one line of `git branch --list`: the name after the marker column, which
\* is blank, "*" for the checked-out branch or "+" for a branch checked out
\* in a linked worktree
Line(name, marker) == [name |-> name, marker |-> marker]

\* b.strip().lstrip('* '): blanks and asterisks are removed, a plus sign
\* stays in front of the name
ParseBranchLine(line) ==
    IF line.marker = "plus" THEN "unparsed" ELSE line.name

\* the names step 2 passes to `git branch -D`: every parsed line but the
\* session's base branch
BranchesToDelete(lines) ==
    {ParseBranchLine(l) : l \in lines} \ {"base"}

\* Path(workspace_repo_path).exists(): the workspace lives inside the
\* session directory, the original repository is where the caller keeps it
WorkspaceExists(mode, dir) ==
    IF mode = "original" THEN TRUE ELSE dir = "present"

\* step 3 without the comparison of the two repository paths
WorktreeCleanupApplies_Unguarded(mode, dir) ==
    WorkspaceExists(mode, dir)

\* archive_session step 3, the conditions: the workspace path differs from
\* the original repository path and exists
WorktreeCleanupApplies(mode, dir) ==
    mode # "original" /\ WorkspaceExists(mode, dir)

\* step 3, the commands: worktree remove; on a non-zero exit worktree remove
\* --force and, if the directory is still there, rmtree; on an exception
\* the fallback rmtree.  `gone` says the directory no longer exists,
\* `unlisted` that git dropped the worktree from its list.
CleanupWorktree(rem, force, rm) ==
    IF rem = "ok"
    THEN [cmds |-> <<"worktree_remove">>, gone |-> TRUE, unlisted |-> TRUE,
          failed |-> FALSE]
    ELSE IF rem = "raises"
    THEN [cmds |-> <<"worktree_remove", "rmtree">>, gone |-> rm = "ok",
          unlisted |-> FALSE, failed |-> TRUE]
    ELSE IF force = "ok"
    THEN [cmds |-> <<"worktree_remove", "worktree_remove_force">>,
          gone |-> TRUE, unlisted |-> TRUE, failed |-> TRUE]
    ELSE IF rm = "ok"
    THEN [cmds |-> <<"worktree_remove", "worktree_remove_force", "rmtree">>,
          gone |-> TRUE, unlisted |-> FALSE, failed |-> TRUE]
    ELSE [cmds |-> <<"worktree_remove", "worktree_remove_force", "rmtree",
                     "rmtree">>,
          gone |-> FALSE, unlisted |-> FALSE, failed |-> TRUE]

\* WorkflowOrchestrator.archive_session(session_id, cleanup_branch), the
\* whole call.  Everything is inside one try whose handler returns False;
\* steps 2 and 3 have a try of their own, step 1 and step 4 have not.
ArchiveSession ==
    /\ pc = "done"
    /\ \E cleanup_branch \in BOOLEAN,
          rd \in (IF EntryFound("ok") THEN {"ok", "io_error"} ELSE {"ok"}),
          mv \in (IF sessionDir = "present" THEN {"ok", "raises"} ELSE {"ok"}) :
          IF ~EntryFound(rd)
          THEN /\ archive' = [NotArchived EXCEPT !.result = "False"]
               /\ UNCHANGED <<regFile, regStatus, sessionDir, branchOps,
                              worktreeRegistered, repoDirRemoved>>
          ELSE IF mv = "raises"
          THEN /\ archive' = [NotArchived EXCEPT !.result = "False",
                                 !.found = TRUE, !.seen = regStatus,
                                 !.ran = {"move"}, !.failed = {"move"}]
               /\ UNCHANGED <<regFile, regStatus, sessionDir, branchOps,
                              worktreeRegistered, repoDirRemoved>>
          ELSE
            LET dir == IF sessionDir = "present" THEN "archived"
                       ELSE sessionDir
                step2 == BranchCleanupApplies(cleanup_branch, regStatus)
                step3 == WorktreeCleanupApplies(workspaceMode, dir)
            IN  \E ls \in (IF step2 THEN {"ok", "fail"} ELSE {"ok"}),
                   marker \in (IF step2 /\ SessionBranchExists
                               THEN {"none", "plus"} ELSE {"none"}),
                   extra \in (IF step2 THEN SUBSET {"other", "base"}
                              ELSE {{}}),
                   rem \in (IF step3 THEN {"ok", "fail", "raises"}
                            ELSE {"ok"}),
                   force \in (IF step3 THEN {"ok", "fail"} ELSE {"ok"}),
                   rm \in (IF step3 THEN {"ok", "raises"} ELSE {"ok"}),
                   wr \in {"ok", "fail_unchanged", "fail_truncated"} :
                   LET lines == (IF SessionBranchExists
                                 THEN {Line("session", marker)} ELSE {})
                                \cup {Line(b, "none") : b \in extra}
                       tried == IF step2 /\ ls = "ok"
                                THEN BranchesToDelete(lines) ELSE {}
                       c == CleanupWorktree(rem, force, rm)
                       w == WriteRegistry("absent", wr)
                   IN  \E deleted \in SUBSET (tried \ {"unparsed"}) :
                          /\ sessionDir' = dir
                          /\ branchOps' = branchOps
                                \cup {Op("delete", b) : b \in deleted}
                          /\ worktreeRegistered' =
                                IF step3 /\ c.unlisted THEN FALSE
                                ELSE worktreeRegistered
                          /\ repoDirRemoved' =
                                IF step3 /\ workspaceMode = "original" /\ c.gone
                                THEN TRUE ELSE repoDirRemoved
                          /\ regFile' = w[1]
                          /\ regStatus' = w[2]
                          /\ archive' =
                                [result  |-> IF wr = "ok" THEN "True"
                                             ELSE "False",
                                 found   |-> TRUE,
                                 seen    |-> regStatus,
                                 ran     |-> {"move", "branches", "worktree",
                                              "registry"},
                                 failed  |->
                                    (IF step2 /\ (ls = "fail" \/ tried # deleted)
                                     THEN {"branches"} ELSE {})
                                    \cup (IF step3 /\ c.failed
                                          THEN {"worktree"} ELSE {})
                                    \cup (IF wr # "ok"
                                          THEN {"registry_write"} ELSE {}),
                                 deleted |-> deleted,
                                 cmds    |-> IF step3 THEN c.cmds ELSE <<>>]
    /\ UNCHANGED <<pc, running, success, result, implementation_data,
                   review_data, iteration, test_plan_data, pr_url, isolated,
                   headDetached, tempRemote, branchSynced, exc, status,
                   updateOutcome, broadcasts, calls, reports, last_logged,
                   review_concerns, shipHeads, syncLog>>
    /\ UNCHANGED setupVars
    /\ UNCHANGED registryVars
    /\ UNCHANGED auxVars

\* `wizardry kill SESSION_ID` (cli/__init__.py): unknown id exits 1; the
\* transcripts are copied to the archive, the session directory is deleted
\* with ignore_errors, the status becomes terminated and the registry is
\* written.  Nothing is done to the repository.
CliKill ==
    /\ pc = "done"
    /\ \E rd \in {"ok", "io_error"},
          cp \in (IF sessionDir = "present" THEN {"ok", "raises"} ELSE {"ok"}),
          wr \in {"ok", "fail_unchanged", "fail_truncated"} :
          IF ~EntryFound(rd) \/ cp = "raises"
          THEN UNCHANGED <<regFile, regStatus, sessionDir>>
          ELSE /\ sessionDir' = IF sessionDir = "present" THEN "deleted"
                                ELSE sessionDir
               /\ regFile' = WriteRegistry("terminated", wr)[1]
               /\ regStatus' = WriteRegistry("terminated", wr)[2]
    /\ UNCHANGED <<pc, running, success, result, implementation_data,
                   review_data, iteration, test_plan_data, pr_url, isolated,
                   headDetached, tempRemote, branchSynced, exc, status,
                   updateOutcome, broadcasts, calls, reports, last_logged,
                   review_concerns, worktreeRegistered, branchOps, shipHeads,
                   syncLog, repoDirRemoved, archive>>
    /\ UNCHANGED setupVars
    /\ UNCHANGED registryVars
    /\ UNCHANGED auxVars

\* kill_session (ui/utils.py): as the CLI's kill, all in one try that
\* returns False; after the registry is saved, if wizardry-<session_id> is
\* a branch of the repository recorded as repo_path, that repository checks
\* out the session's base branch and deletes the session's branch.
KillSession ==
    /\ pc = "done"
    /\ \E rd \in {"ok", "io_error"},
          cp \in (IF sessionDir = "present" THEN {"ok", "raises"} ELSE {"ok"}),
          wr \in {"ok", "fail_unchanged", "fail_truncated"},
          co \in (IF SessionBranchExists THEN {"ok", "fail"} ELSE {"fail"}),
          del \in (IF SessionBranchExists THEN {"ok", "fail"} ELSE {"fail"}) :
          IF ~EntryFound(rd) \/ cp = "raises"
          THEN UNCHANGED <<regFile, regStatus, sessionDir, branchOps>>
          ELSE /\ sessionDir' = IF sessionDir = "present" THEN "deleted"
                                ELSE sessionDir
               /\ regFile' = WriteRegistry("terminated", wr)[1]
               /\ regStatus' = WriteRegistry("terminated", wr)[2]
               /\ branchOps' =
                     IF wr = "ok" /\ SessionBranchExists /\ co = "ok"
                     THEN branchOps \cup {Op("checkout", "base")}
                            \cup (IF del = "ok"
                                  THEN {Op("delete", "session")} ELSE {})
                     ELSE branchOps
    /\ UNCHANGED <<pc, running, success, result, implementation_data,
                   review_data, iteration, test_plan_data, pr_url, isolated,
                   headDetached, tempRemote, branchSynced, exc, status,
                   updateOutcome, broadcasts, calls, reports, last_logged,
                   review_concerns, worktreeRegistered, shipHeads, syncLog,
                   repoDirRemoved, archive>>
    /\ UNCHANGED setupVars
    /\ UNCHANGED registryVars
    /\ UNCHANGED auxVars

Next ==
    \/ SetupWorkspaceRepo
    \/ RegisterSession
    \/ StartImplementer
    \/ ReturnImplementer
    \/ StartReviewer
    \/ ReturnReviewer
    \/ LoopTest
    \/ StartFeedback
    \/ ReturnFeedback
    \/ StartReReview
    \/ ReturnReReview
    \/ AfterLoop
    \/ StartTestPlanner
    \/ ReturnTestPlanner
    \/ SyncToOriginalRepo
    \/ CreatePr
    \/ ExceptHandler
    \/ Finally

Spec == Init /\ [][Next]_vars

(***************************************************************************)
(* The session's life cycle: construction, registration, the agents' work  *)
(* taken as one step, shipping, the final status update, and then the      *)
(* commands that dispose of the session.                                   *)
(***************************************************************************)

\* run_workflow from the Implementer's first call to the end of test
\* planning, as one step with the outcomes that stretch can have: the
\* initial report is not ready (early `return False`), an agent call
\* raises, the review loop ends without approval, or the Reviewer approved
\* and test planning is over.  The agents may leave HEAD detached; their
\* reports are not tracked here.
AgentPhase ==
    /\ pc = "implementer"
    /\ \E out \in {"not_ready", "raised", "rejected", "approved"},
          d \in BOOLEAN :
          /\ headDetached' = d
          /\ CASE out = "not_ready" ->
                    /\ pc' = "finally"
                    /\ UNCHANGED <<success, exc>>
               [] out = "raised" ->
                    /\ pc' = "except"
                    /\ exc' = "implementer"
                    /\ UNCHANGED success
               [] out = "rejected" ->
                    /\ success' = "False"
                    /\ pc' = "finally"
                    /\ UNCHANGED exc
               [] out = "approved" ->
                    /\ pc' = "sync"
                    /\ UNCHANGED <<success, exc>>
    /\ UNCHANGED <<running, result, implementation_data, review_data,
                   iteration, test_plan_data, pr_url, isolated, tempRemote,
                   branchSynced, regFile, regStatus, status, updateOutcome,
                   broadcasts, calls, reports, last_logged, review_concerns>>
    /\ UNCHANGED setupVars
    /\ UNCHANGED repoVars
    /\ UNCHANGED registryVars
    /\ UNCHANGED auxVars

LifecycleNext ==
    \/ SetupWorkspaceRepo
    \/ RegisterSession
    \/ AgentPhase
    \/ SyncToOriginalRepo
    \/ CreatePr
    \/ ExceptHandler
    \/ Finally
    \/ ArchiveSession
    \/ CliKill
    \/ KillSession

LifecycleSpec == Init /\ [][LifecycleNext]_vars

(***************************************************************************)
(* The session registry and its clients.  Every operation reads the whole  *)
(* file, changes its copy and writes the whole file back, without a lock;  *)
(* the read and the write of one operation are separate steps, and other   *)
(* clients' steps may fall between them.                                   *)
(***************************************************************************)

\* the variables of the single-session specifications
sessionVars ==
    <<pc, running, success, result, implementation_data, review_data,
      iteration, test_plan_data, pr_url, isolated, headDetached, tempRemote,
      branchSynced, regFile, regStatus, exc, status, updateOutcome,
      broadcasts, calls, reports, last_logged, review_concerns, host,
      workspaceMode, setupSteps, sessionDir, worktreeRegistered, branchOps,
      shipHeads, syncLog, repoDirRemoved, archive>>

Kind(file) == file.kind

\* a load_sessions that catches IOError only
load_sessions_NoDecodeGuard(file) ==
    IF file.kind = "missing" THEN [view |-> Empty, raised |-> FALSE]
    ELSE IF file.kind = "corrupt" THEN [view |-> Empty, raised |-> TRUE]
    ELSE [view |-> file.entries, raised |-> FALSE]

\* load_sessions (cli/__init__.py, ui/utils.py, ui/backend/main.py: the
\* same text three times): {} when the file does not exist, {} when
\* json.load raises JSONDecodeError, the parsed object otherwise
load_sessions(file) ==
    IF file.kind = "missing" THEN [view |-> Empty, raised |-> FALSE]
    ELSE IF file.kind = "corrupt" THEN [view |-> Empty, raised |-> FALSE]
    ELSE [view |-> file.entries, raised |-> FALSE]

\* a caller that only reads: session lists, status, the endpoints
read_sessions(file) ==
    LET s == load_sessions(file)
    IN  NoWrite(s.view, IF s.raised THEN "raised" ELSE "sessions", s.raised)

\* a _register_session that always starts from an empty registry
register_session_Fresh(file, sid) ==
    Write(Empty, [Empty EXCEPT ![sid] = "in_progress"], "None")

\* _register_session: FileNotFoundError and JSONDecodeError on the read
\* give {}; the entry is added with status in_progress and the file written
register_session(file, sid) ==
    LET reg == IF file.kind = "missing" THEN Empty
               ELSE IF file.kind = "corrupt" THEN Empty
               ELSE file.entries
    IN  Write(reg, [reg EXCEPT ![sid] = "in_progress"], "None")

\* _update_session_status: everything in one try with `except Exception:
\* pass`; the file is written only when the session is in the registry
update_session_status(file, sid, st) ==
    IF file.kind = "missing" THEN NoWrite(Empty, "None", FALSE)
    ELSE IF file.kind = "corrupt" THEN NoWrite(Empty, "None", FALSE)
    ELSE IF file.entries[sid] = "absent"
    THEN NoWrite(file.entries, "None", FALSE)
    ELSE Write(file.entries, [file.entries EXCEPT ![sid] = st], "None")

\* the CLI's kill: load_sessions, exit status 1 for an unknown id, else
\* status terminated and the file written
cli_kill(file, sid) ==
    LET s == load_sessions(file)
    IN  IF s.raised THEN NoWrite(Empty, "raised", TRUE)
        ELSE IF s.view[sid] = "absent" THEN NoWrite(s.view, "exit_1", FALSE)
        ELSE Write(s.view, [s.view EXCEPT ![sid] = "terminated"], "None")

\* the dashboard's kill_session: the same inside a try that returns False
kill_session(file, sid) ==
    LET s == load_sessions(file)
    IN  IF s.raised THEN NoWrite(Empty, "False", FALSE)
        ELSE IF s.view[sid] = "absent" THEN NoWrite(s.view, "False", FALSE)
        ELSE Write(s.view, [s.view EXCEPT ![sid] = "terminated"], "True")

\* archive_session, its registry side: False when the file does not exist,
\* False from the outer handler when json.load raises, False for an unknown
\* id, else the entry is deleted and the file written
archive_session(file, sid) ==
    IF file.kind = "missing" THEN NoWrite(Empty, "False", FALSE)
    ELSE IF file.kind = "corrupt" THEN NoWrite(Empty, "False", FALSE)
    ELSE IF file.entries[sid] = "absent"
    THEN NoWrite(file.entries, "False", FALSE)
    ELSE Write(file.entries, [file.entries EXCEPT ![sid] = "absent"], "True")

Operations ==
    {"load_sessions", "register", "update_completed", "update_failed",
     "cli_kill", "kill_session", "archive"}

\* what operation `op` for session `sid` does when it reads `file`
Operation(op, file, sid) ==
    CASE op = "load_sessions"    -> read_sessions(file)
      [] op = "register"         -> register_session(file, sid)
      [] op = "update_completed" -> update_session_status(file, sid, "completed")
      [] op = "update_failed"    -> update_session_status(file, sid, "failed")
      [] op = "cli_kill"         -> cli_kill(file, sid)
      [] op = "kill_session"     -> kill_session(file, sid)
      [] op = "archive"          -> archive_session(file, sid)

\* a write that puts only the client's own entry into the current file
WrittenFile_OwnEntryOnly(c) ==
    IF registry.kind = "valid"
    THEN [registry.entries EXCEPT ![clients[c].sid] =
                                      clients[c].out.write[clients[c].sid]]
    ELSE clients[c].out.write

\* json.dump(registry, f): the file's entries become the client's
\* in-memory copy
WrittenFile(c) == clients[c].out.write

\* files the clients may find when they start
InitialFiles ==
    {Missing, Corrupt}
        \cup {Valid(e) : e \in [Sessions -> {"absent", "in_progress", "completed"}]}

RegistryInit ==
    /\ SessionInit
    /\ host = "ordinary"
    /\ regFile = "missing"
    /\ registry \in InitialFiles
    /\ clients = [c \in Clients |-> Idle]
    /\ writeOrder = <<>>
    /\ AuxInit

\* client c starts an operation: it reads the file and works out what to do
Begin(c) ==
    /\ clients[c].pc = "idle"
    /\ \E op \in Operations, sid \in Sessions :
          LET o == Operation(op, registry, sid)
          IN  clients' = [clients EXCEPT ![c] =
                  [pc     |-> IF o.writes THEN "loaded" ELSE "done",
                   op     |-> op,
                   sid    |-> sid,
                   saw    |-> Kind(registry),
                   readAt |-> Len(writeOrder),
                   out    |-> o,
                   wrote  |-> "no"]]
    /\ UNCHANGED <<registry, writeOrder>>
    /\ UNCHANGED sessionVars
    /\ UNCHANGED auxVars

\* client c writes the file: open(..., 'w') and json.dump; a write that
\* fails part-way leaves a file that is not JSON
Commit(c) ==
    /\ clients[c].pc = "loaded"
    /\ \E wr \in {"ok", "truncated"} :
          /\ registry' = IF wr = "ok" THEN Valid(WrittenFile(c)) ELSE Corrupt
          /\ clients' = [clients EXCEPT ![c].pc = "done", ![c].wrote = wr]
    /\ writeOrder' = Append(writeOrder, c)
    /\ UNCHANGED sessionVars
    /\ UNCHANGED auxVars

RegistryNext ==
    \/ \E c \in Clients : Begin(c)
    \/ \E c \in Clients : Commit(c)

RegistrySpec == RegistryInit /\ [][RegistryNext]_vars

(***************************************************************************)
(* The dashboard backend (src/wizardry/ui/backend/main.py): the connection *)
(* manager, the WebSocket endpoint and the background workflow task.  All  *)
(* of them are coroutines of one event loop: a coroutine runs until it     *)
(* awaits, so each action below is the stretch between two awaits.         *)
(***************************************************************************)

\* what the backend's actions leave alone
otherThanBackend ==
    <<sessionVars, registryVars, diffVars, transcriptVars, gateVars,
      selfTestVars, syncVars, formVars>>

\* the session and the registry stay as they are at start-up
Quiet ==
    /\ SessionInit
    /\ host = "ordinary"
    /\ regFile = "missing"
    /\ registry = Missing
    /\ clients = [c \in Clients |-> Idle]
    /\ writeOrder = <<>>

\* `x in list`
Contains(list, x) == \E i \in DOMAIN list : list[i] = x

\* a list.remove that leaves the list alone
Remove_Nothing(list, x) == list

\* list.remove(x): the list without its first element equal to x
Remove(list, x) ==
    LET i == CHOOSE k \in DOMAIN list :
                 list[k] = x /\ \A j \in 1..(k - 1) : list[j] # x
    IN  SubSeq(list, 1, i - 1) \o SubSeq(list, i + 1, Len(list))

\* ConnectionManager.connect: accept the socket, then append it
Connect(c) ==
    /\ Cardinality(accepted) < Len(ConnOrder)
    /\ c = ConnOrder[Cardinality(accepted) + 1]
    /\ accepted' = accepted \cup {c}
    /\ active_connections' = Append(active_connections, c)
    /\ UNCHANGED <<gone, handled, disconnectErrors, bcast, background>>
    /\ UNCHANGED otherThanBackend

\* the client of connection c goes away; from now on a send to c raises
\* and the endpoint's receive_text will raise WebSocketDisconnect
ClientGone(c) ==
    /\ c \in accepted \ gone
    /\ gone' = gone \cup {c}
    /\ UNCHANGED <<active_connections, accepted, handled, disconnectErrors,
                   bcast, background>>
    /\ UNCHANGED otherThanBackend

\* websocket_endpoint's `except WebSocketDisconnect: manager.disconnect(ws)`;
\* disconnect is list.remove, which raises ValueError when the element is
\* not in the list
HandleDisconnect(c) ==
    /\ c \in gone \ handled
    /\ handled' = handled \cup {c}
    /\ IF Contains(active_connections, c)
       THEN /\ active_connections' = Remove(active_connections, c)
            /\ UNCHANGED disconnectErrors
       ELSE /\ disconnectErrors' = disconnectErrors \cup {c}
            /\ UNCHANGED active_connections
    /\ UNCHANGED <<accepted, gone, bcast, background>>
    /\ UNCHANGED otherThanBackend

\* caller t enters manager.broadcast(msg): the for loop's iterator starts
\* at index 0 of the list object itself
StartBroadcast(t, msg) ==
    [bcast EXCEPT ![t] = [pc        |-> "loop",
                          msg       |-> msg,
                          idx       |-> 0,
                          conn      |-> "none",
                          start     |-> active_connections,
                          failed    |-> {},
                          delivered |-> {},
                          removed   |-> {}]]

\* `for connection in self.active_connections`: the list iterator yields
\* the element at its index in the list as it is now and advances, or ends
\* the loop when the index has reached the list's present length; the body
\* then awaits send_text
BroadcastNext(t) ==
    /\ bcast[t].pc = "loop"
    /\ IF bcast[t].idx < Len(active_connections)
       THEN bcast' = [bcast EXCEPT
                         ![t].conn = active_connections[bcast[t].idx + 1],
                         ![t].idx = bcast[t].idx + 1,
                         ![t].pc = "send"]
       ELSE bcast' = [bcast EXCEPT ![t].pc = "returned", ![t].conn = "none"]
    /\ UNCHANGED <<active_connections, accepted, gone, handled,
                   disconnectErrors, background>>
    /\ UNCHANGED otherThanBackend

\* a broadcast without the try/except around the send
BroadcastSend_Propagates(t) ==
    /\ bcast[t].pc = "send"
    /\ LET c == bcast[t].conn IN
       IF c \in gone
       THEN bcast' = [bcast EXCEPT ![t].failed = @ \cup {c},
                                   ![t].pc = "raised"]
       ELSE bcast' = [bcast EXCEPT ![t].delivered = @ \cup {c},
                                   ![t].pc = "loop"]
    /\ UNCHANGED <<active_connections, accepted, gone, handled,
                   disconnectErrors, background>>
    /\ UNCHANGED otherThanBackend

\* the awaited send_text completes: it raised, and the bare except removes
\* the connection if the list still holds it, or it delivered the message
BroadcastSend(t) ==
    /\ bcast[t].pc = "send"
    /\ LET c == bcast[t].conn IN
       IF c \in gone
       THEN IF Contains(active_connections, c)
            THEN /\ active_connections' = Remove(active_connections, c)
                 /\ bcast' = [bcast EXCEPT ![t].failed = @ \cup {c},
                                           ![t].removed = @ \cup {c},
                                           ![t].pc = "loop"]
            ELSE /\ bcast' = [bcast EXCEPT ![t].failed = @ \cup {c},
                                           ![t].pc = "loop"]
                 /\ UNCHANGED active_connections
       ELSE /\ bcast' = [bcast EXCEPT ![t].delivered = @ \cup {c},
                                      ![t].pc = "loop"]
            /\ UNCHANGED active_connections
    /\ UNCHANGED <<accepted, gone, handled, disconnectErrors, background>>
    /\ UNCHANGED otherThanBackend

\* create_session, after its validation: the workflow task is handed to
\* the background tasks and starts awaiting run_orchestrator
CreateSession ==
    /\ background.pc = "not_started"
    /\ background' = [background EXCEPT !.pc = "running"]
    /\ UNCHANGED <<active_connections, accepted, gone, handled,
                   disconnectErrors, bcast>>
    /\ UNCHANGED otherThanBackend

\* the message run_workflow_background builds: workflow_completed with the
\* value run_orchestrator returned, or workflow_error in the handler
CompletionMessage(outcome) ==
    IF outcome = "raised" THEN Message("workflow_error", "none")
    ELSE Message("workflow_completed", outcome)

\* run_orchestrator returns True or False, or raises an Exception; the
\* task builds its message and enters manager.broadcast, inside the try
\* when the call returned and inside the handler when it raised
RunOrchestratorEnds ==
    /\ background.pc = "running"
    /\ \E outcome \in {"True", "False", "raised"} :
          /\ background' =
                [pc       |-> IF outcome = "raised" THEN "error_broadcast"
                              ELSE "completed_broadcast",
                 outcome  |-> outcome,
                 messages |-> <<CompletionMessage(outcome)>>]
          /\ bcast' = StartBroadcast("bg", CompletionMessage(outcome))
    /\ UNCHANGED <<active_connections, accepted, gone, handled,
                   disconnectErrors>>
    /\ UNCHANGED otherThanBackend

\* the task's broadcast is over.  If the broadcast inside the try raised,
\* `except Exception` builds workflow_error and broadcasts again; in every
\* other case the task ends.
BackgroundResume ==
    /\ background.pc \in {"completed_broadcast", "error_broadcast"}
    /\ bcast["bg"].pc \in {"returned", "raised"}
    /\ IF background.pc = "completed_broadcast" /\ bcast["bg"].pc = "raised"
       THEN /\ background' =
                  [background EXCEPT
                      !.pc = "error_broadcast",
                      !.messages = Append(@, CompletionMessage("raised"))]
            /\ bcast' = StartBroadcast("bg", CompletionMessage("raised"))
       ELSE /\ background' = [background EXCEPT !.pc = "done"]
            /\ bcast' = [bcast EXCEPT !["bg"] = NoBroadcast]
    /\ UNCHANGED <<active_connections, accepted, gone, handled,
                   disconnectErrors>>
    /\ UNCHANGED otherThanBackend

\* delete_session / archive_session after a successful archival, and
\* broadcast_status_update: the endpoint enters manager.broadcast
EndpointBroadcast ==
    /\ bcast["ep"].pc = "idle"
    /\ \E type \in {"session_archived", "status_updated"} :
          bcast' = StartBroadcast("ep", Message(type, "none"))
    /\ UNCHANGED <<active_connections, accepted, gone, handled,
                   disconnectErrors, background>>
    /\ UNCHANGED otherThanBackend

\* the endpoint's broadcast is over and the endpoint answers its request
EndpointReturn ==
    /\ bcast["ep"].pc = "returned"
    /\ bcast' = [bcast EXCEPT !["ep"] = NoBroadcast]
    /\ UNCHANGED <<active_connections, accepted, gone, handled,
                   disconnectErrors, background>>
    /\ UNCHANGED otherThanBackend

BackendNext ==
    \/ \E c \in Conns : Connect(c)
    \/ \E c \in Conns : ClientGone(c)
    \/ \E c \in Conns : HandleDisconnect(c)
    \/ \E t \in Callers : BroadcastNext(t)
    \/ \E t \in Callers : BroadcastSend(t)
    \/ CreateSession
    \/ RunOrchestratorEnds
    \/ BackgroundResume
    \/ EndpointBroadcast
    \/ EndpointReturn

BackendInit == Quiet /\ AuxInit

BackendSpec == BackendInit /\ [][BackendNext]_vars

(***************************************************************************)
(* Handing the diff to the Reviewer and to the Test Planner                *)
(* (_run_reviewer and _run_test_planner, "Handle large diffs by saving to  *)
(* file").  A diff is taken by its length in characters.                   *)
(***************************************************************************)

\* lengths of the diffs handed over, on both sides of each threshold
DiffLens == {0, 1, 3999, 4000, 4001, 4999, 5000, 5001, 7999, 8000, 8001,
             9999, 10000, 10001, 20000}

\* diff preparations in one run
MaxDiffCalls == 2

ReviewerThreshold == 10000

ReviewerKeep == 5000

TestPlannerThreshold == 8000

TestPlannerKeep == 4000

Min(a, b) == IF a < b THEN a ELSE b

\* a size test that takes the threshold itself as too large
Oversized_Inclusive(n, threshold) == n >= threshold

\* `if len(diff_output) > threshold`
Oversized(n, threshold) == n > threshold

\* diff_content_for_prompt: the diff itself; for an oversized diff the
\* pointer to the file when the file was written, and otherwise the first
\* `keep` characters with a truncation notice
DiffForPrompt(n, threshold, keep, file, write) ==
    IF Oversized(n, threshold)
    THEN IF write = "ok" THEN Prompt("pointer", 0, file)
         ELSE Prompt("truncated", Min(n, keep), "none")
    ELSE Prompt("inline", n, "none")

\* the file after the call: written in full, and after a failure either
\* as it was (open failed) or emptied by open(..., 'w') (write failed)
FileAfter(old, n, threshold, write) ==
    IF ~Oversized(n, threshold) \/ write = "open_fails" THEN old
    ELSE IF write = "ok" THEN DiffFile(TRUE, n)
    ELSE DiffFile(TRUE, 0)

\* what the diff preparation of a role does with a diff of n characters
PrepareDiff(role, n, threshold, keep, file, write) ==
    /\ diffCalls < MaxDiffCalls
    /\ diffCalls' = diffCalls + 1
    /\ diffFiles' = [diffFiles EXCEPT
                        ![file] = FileAfter(@, n, threshold, write)]
    /\ diffCall' = [role   |-> role,
                    len    |-> n,
                    write  |-> write,
                    prompt |-> DiffForPrompt(n, threshold, keep, file, write)]
    /\ UNCHANGED <<sessionVars, registryVars, syncVars, formVars,
                   backendVars, transcriptVars,
                   gateVars, selfTestVars>>

\* _run_reviewer prepares the diff of its prompt
ReviewerDiff ==
    \E n \in DiffLens :
       \E write \in (IF Oversized(n, ReviewerThreshold)
                     THEN {"ok", "open_fails", "write_fails"} ELSE {"ok"}) :
          PrepareDiff("reviewer", n, ReviewerThreshold, ReviewerKeep,
                      "current_diff.txt", write)

\* _run_test_planner prepares the diff of its prompt
TestPlannerDiff ==
    \E n \in DiffLens :
       \E write \in (IF Oversized(n, TestPlannerThreshold)
                     THEN {"ok", "open_fails", "write_fails"} ELSE {"ok"}) :
          PrepareDiff("test_planner", n, TestPlannerThreshold,
                      TestPlannerKeep, "test_planning_diff.txt", write)

DiffInit == Quiet /\ AuxInit

DiffNext == ReviewerDiff \/ TestPlannerDiff

DiffSpec == DiffInit /\ [][DiffNext]_vars

(***************************************************************************)
(* Transcripts: _log_conversation appends an entry to the agent's markdown *)
(* file, parse_transcript_entries (ui/backend/main.py) reads the file back *)
(* for the dashboard.  A text is taken as its sequence of lines; a line is *)
(* taken by what the parser can tell about it.                             *)
(***************************************************************************)

\* a line of text: "blank" is the empty line, "rule" the line `---`,
\* "hdr" a line `## [<ts>] ...` (ts = 0 for an empty bracket), "task" a
\* line starting with `**Task**:`, "resp" one starting with
\* `**Response**:`, "text" any other line
TLine(kind, ts) == [kind |-> kind, ts |-> ts]

Blank == TLine("blank", 0)

Text == TLine("text", 0)

Rule == TLine("rule", 0)

\* entries appended to one transcript
MaxEntries == 3

\* a timestamp that an agent's own text may carry in a `## [...]` heading
QuotedStamp == 9

\* prompts handed to _log_conversation: one line, or as run_workflow's
\* prompts are, an empty first line followed by text
Messages == { <<Text>>, <<Blank, Text>> }

\* responses handed to _log_conversation: empty, plain text, text with a
\* markdown rule and a blank line in it, and text that quotes a transcript
\* entry after such a rule
Responses ==
    { <<Blank>>,
      <<Text>>,
      <<Text, Rule, Blank, Text>>,
      <<Text, Rule, Blank, TLine("hdr", QuotedStamp), TLine("task", 0),
        Text>> }

\* what _log_conversation appends; the first line of the message shares
\* its line with `**Task**: `
LoggedEntry(ts, message, response) ==
    <<TLine("hdr", ts), Blank, TLine("task", 0)>>
       \o SubSeq(message, 2, Len(message))
       \o <<Blank, TLine("resp", 0)>>
       \o response
       \o <<Blank, Rule, Blank>>

\* str.split('---\n\n'): the pieces between the rules that a blank line
\* follows
RECURSIVE Sections(_)
Sections(lines) ==
    LET cuts == {i \in 1..(Len(lines) - 1) :
                    lines[i] = Rule /\ lines[i + 1] = Blank}
    IN  IF cuts = {} THEN <<lines>>
        ELSE LET i == CHOOSE c \in cuts : \A d \in cuts : c <= d
             IN  <<SubSeq(lines, 1, i - 1)>>
                    \o Sections(SubSeq(lines, i + 2, Len(lines)))

\* str.strip() of a piece: without its leading and trailing empty lines
RECURSIVE Strip(_)
Strip(lines) ==
    IF lines = <<>> THEN lines
    ELSE IF lines[1] = Blank THEN Strip(Tail(lines))
    ELSE IF lines[Len(lines)] = Blank
    THEN Strip(SubSeq(lines, 1, Len(lines) - 1))
    ELSE lines

\* '\n'.join(lines[from:to]).strip() is not empty
Populated(lines, from, to) ==
    \E i \in from..to : i \in DOMAIN lines /\ lines[i] # Blank

\* the body of parse_transcript_entries' loop for one stripped piece: the
\* timestamp of a first line `## [`, response_start the first
\* `**Response**:` line, task_start the last `**Task**:` line before it
\* (0 stands for -1); task and response are the lines after those two
ParseSection(lines) ==
    LET timestamp == IF lines[1].kind = "hdr" THEN lines[1].ts ELSE 0
        resps == {i \in DOMAIN lines : lines[i].kind = "resp"}
        response_start ==
            IF resps = {} THEN 0
            ELSE CHOOSE i \in resps : \A j \in resps : i <= j
        tasks == {i \in DOMAIN lines :
                     /\ lines[i].kind = "task"
                     /\ response_start = 0 \/ i < response_start}
        task_start ==
            IF tasks = {} THEN 0
            ELSE CHOOSE i \in tasks : \A j \in tasks : j <= i
        task ==
            IF task_start = 0 THEN FALSE
            ELSE IF response_start > task_start
            THEN Populated(lines, task_start + 1, response_start - 1)
            ELSE Populated(lines, task_start + 1, Len(lines))
        response ==
            /\ task_start # 0
            /\ response_start > task_start
            /\ Populated(lines, response_start + 1, Len(lines))
    IN  [timestamp |-> timestamp, task |-> task, response |-> response]

\* one entry per piece that is not empty and has a timestamp and a task
\* or a response
RECURSIVE ParseSections(_)
ParseSections(sections) ==
    IF sections = <<>> THEN <<>>
    ELSE LET section == Strip(Head(sections))
             rest == ParseSections(Tail(sections))
         IN  IF section = <<>> THEN rest
             ELSE LET e == ParseSection(section)
                  IN  IF e.timestamp # 0 /\ (e.task \/ e.response)
                      THEN <<e>> \o rest
                      ELSE rest

\* parse_transcript_entries: nothing for an empty file
parse_transcript_entries(content) ==
    IF Strip(content) = <<>> THEN <<>>
    ELSE ParseSections(Sections(content))

\* _log_conversation for the agent; the entry's timestamp, the time of
\* the call, is numbered by the call
LogConversation ==
    /\ logged < MaxEntries
    /\ \E message \in Messages, response \in Responses :
          transcript' = transcript \o LoggedEntry(logged + 1, message, response)
    /\ logged' = logged + 1
    /\ UNCHANGED parsed
    /\ UNCHANGED <<sessionVars, registryVars, syncVars, formVars,
                   backendVars, diffVars,
                   gateVars, selfTestVars>>

\* the dashboard reads the agent's transcript
ParseTranscript ==
    /\ logged >= 1
    /\ parsed.at # logged
    /\ parsed' = [at |-> logged,
                  entries |-> parse_transcript_entries(transcript)]
    /\ UNCHANGED <<transcript, logged>>
    /\ UNCHANGED <<sessionVars, registryVars, syncVars, formVars,
                   backendVars, diffVars,
                   gateVars, selfTestVars>>

TranscriptInit == Quiet /\ AuxInit

TranscriptNext == LogConversation \/ ParseTranscript

TranscriptSpec == TranscriptInit /\ [][TranscriptNext]_vars

(***************************************************************************)
(* The two entry points of a workflow: the CLI's `run` command and the     *)
(* backend's POST /api/sessions, with the checks each makes before it      *)
(* calls run_orchestrator.                                                *)
(***************************************************************************)

\* requests in one behaviour
MaxRequests == 2

\* what a request names as its repository: a path that does not exist, a
\* directory without .git, a directory whose .git GitPython rejects, a
\* repository
Paths == {"missing", "no_git", "broken_git", "repo"}

\* the branch a request names: a local branch, a branch only a remote
\* has, or a branch nobody has
Branches == {"local", "remote_only", "unknown"}

\* a request and what became of it; `name` is "main" when the branch is
\* called main or master, `listing` whether reading repo.branches raises,
\* `ran` whether run_orchestrator was called
Request(via, path, bundle, auto_setup, copy, listing, name, branch, answer, ran) ==
    [via |-> via, path |-> path, bundle |-> bundle,
     auto_setup |-> auto_setup, copy |-> copy, listing |-> listing,
     name |-> name, branch |-> branch, answer |-> answer, ran |-> ran]

\* cli `run`: the exit of the command, and whether it got as far as
\* run_orchestrator.  The checks in order: the path exists, it has .git,
\* .claude exists or --auto-setup copies it, Repo() accepts the
\* repository, the branch is among the local and remote branch names;
\* then the workflow's result decides.
run(path, bundle, auto_setup, copy, branch, outcome) ==
    IF path = "missing" THEN "exit_1"
    ELSE IF path = "no_git" THEN "exit_1"
    ELSE IF bundle = "absent" /\ (~auto_setup \/ copy = "raises")
    THEN "exit_1"
    ELSE IF path = "broken_git" THEN "exit_1"
    ELSE IF branch = "unknown" THEN "exit_1"
    ELSE IF outcome = "True" THEN "ran_exit_0"
    ELSE "ran_exit_1"

\* get_repo_info: Repo() raises NoSuchPathError for a path that does not
\* exist, which the function does not catch; InvalidGitRepositoryError
\* gives None; otherwise the local branch names, or main and master when
\* reading them raises
get_repo_info(path, listing) ==
    IF path = "missing" THEN "raises"
    ELSE IF path \in {"no_git", "broken_git"} THEN "None"
    ELSE IF listing = "raises" THEN "fallback_branches"
    ELSE "local_branches"

\* create_session: 400 without repository information or when the branch
\* is not in its branch list; an exception of get_repo_info leaves the
\* handler and the framework answers 500; otherwise the workflow is
\* handed to the background tasks
create_session(path, listing, name, branch) ==
    LET repo_info == get_repo_info(path, listing) IN
    IF repo_info = "raises" THEN "500"
    ELSE IF repo_info = "None" THEN "400"
    ELSE IF repo_info = "fallback_branches" /\ name # "main" THEN "400"
    ELSE IF repo_info = "local_branches" /\ branch # "local" THEN "400"
    ELSE "ran_200"

\* the answers after which run_orchestrator was called
Ran(answer) == answer \in {"ran_exit_0", "ran_exit_1", "ran_200"}

\* run_orchestrator constructs the orchestrator, whose __init__ creates
\* the session directory; run_workflow then registers the session unless
\* construction or registration failed
Account(req, reg) ==
    /\ requests' = Append(requests, req)
    /\ IF req.ran
       THEN /\ constructed' = constructed + 1
            /\ sessionDirsCreated' = sessionDirsCreated + 1
            /\ registryWrites' = registryWrites + (IF reg THEN 1 ELSE 0)
       ELSE UNCHANGED <<constructed, sessionDirsCreated, registryWrites>>
    /\ UNCHANGED <<sessionVars, registryVars, syncVars, formVars,
                   backendVars, diffVars,
                   transcriptVars, selfTestVars>>

\* one `wizardry run`
CliRun ==
    /\ Len(requests) < MaxRequests
    /\ \E path \in Paths, bundle \in {"present", "absent"},
          auto_setup \in BOOLEAN, branch \in Branches :
       \E copy \in (IF path \in {"broken_git", "repo"} /\ bundle = "absent"
                       /\ auto_setup
                    THEN {"ok", "raises"} ELSE {"ok"}) :
       \E outcome \in (IF Ran(run(path, bundle, auto_setup, copy, branch,
                                  "True"))
                       THEN {"True", "False", "raised"} ELSE {"False"}),
          reg \in BOOLEAN :
          LET answer == run(path, bundle, auto_setup, copy, branch, outcome)
          IN  /\ Ran(answer) \/ ~reg
              /\ Account(Request("cli", path, bundle, auto_setup, copy,
                                 "ok", "other", branch,
                                 IF answer = "ran_exit_0" THEN "exit_0"
                                 ELSE "exit_1",
                                 Ran(answer)), reg)

\* one POST /api/sessions
PostSessions ==
    /\ Len(requests) < MaxRequests
    /\ \E path \in Paths, branch \in Branches, name \in {"main", "other"} :
       \E listing \in (IF path = "repo" THEN {"ok", "raises"} ELSE {"ok"}),
          reg \in BOOLEAN :
          LET answer == create_session(path, listing, name, branch)
          IN  /\ Ran(answer) \/ ~reg
              /\ Account(Request("api", path, "present", FALSE, "ok",
                                 listing, name, branch,
                                 IF answer = "ran_200" THEN "200"
                                 ELSE answer,
                                 Ran(answer)), reg)

GateInit == Quiet /\ AuxInit

GateNext == CliRun \/ PostSessions

GateSpec == GateInit /\ [][GateNext]_vars

(***************************************************************************)
(* The self-test (src/test_wizardry.py): four checks of the template       *)
(* bundle and main(), which runs them in order.  Every entry of the bundle *)
(* is a regular file or is missing.                                        *)
(***************************************************************************)

\* what an agent configuration file may hold
ConfigKinds == {"valid", "invalid_json", "lacks_name", "lacks_description",
                "lacks_system_prompt"}

\* the bundles the self-test is run on
Bundles ==
    {Bundle(missing, config, nonexec) :
        missing \in SUBSET RequiredFiles,
        config \in [AgentFiles -> ConfigKinds],
        nonexec \in SUBSET (Hooks \cup {"commands/workflow.md"})}

\* test_template_structure: no required file is missing
test_template_structure(b) == b.missing = {}

\* test_agent_configs: each file opens, parses and has the three fields
test_agent_configs(b) ==
    \A a \in AgentFiles : a \notin b.missing /\ b.config[a] = "valid"

\* hook_dir.glob("*.sh")
HooksFound(b) == Hooks \ b.missing

\* a hook check that fails on a missing executable bit
test_hook_executables_Strict(b) ==
    HooksFound(b) # {} /\ HooksFound(b) \cap b.nonexec = {}

\* test_hook_executables: fails only when no hook script is found; a
\* missing executable bit prints a warning
test_hook_executables(b) == HooksFound(b) # {}

\* the warnings of test_hook_executables; none when it returns early
HookWarnings(b) == HooksFound(b) \cap b.nonexec

\* test_workflow_command: the command file exists
test_workflow_command(b) == "commands/workflow.md" \notin b.missing

\* its warning
WorkflowWarnings(b) ==
    IF test_workflow_command(b) THEN {"commands/workflow.md"} \cap b.nonexec
    ELSE {}

\* one turn of main's loop: `if not test(): all_passed = False`
RunCheck(at, name, passed, warns, next) ==
    /\ selfTest.pc = at
    /\ selfTest' = [selfTest EXCEPT
                       !.pc = next,
                       !.ran = Append(@, name),
                       !.all_passed = IF passed THEN @ ELSE FALSE,
                       !.warnings = @ \cup warns]
    /\ UNCHANGED templates
    /\ UNCHANGED <<sessionVars, registryVars, syncVars, formVars,
                   backendVars, diffVars,
                   transcriptVars, gateVars>>

TestTemplateStructure ==
    RunCheck("start", "template_structure", test_template_structure(templates),
             {}, "agent_configs")

TestAgentConfigs ==
    RunCheck("agent_configs", "agent_configs", test_agent_configs(templates),
             {}, "hook_executables")

TestHookExecutables ==
    RunCheck("hook_executables", "hook_executables",
             test_hook_executables(templates), HookWarnings(templates),
             "workflow_command")

TestWorkflowCommand ==
    RunCheck("workflow_command", "workflow_command",
             test_workflow_command(templates), WorkflowWarnings(templates),
             "verdict")

\* the end of main: 0 when every check passed, 1 otherwise
MainReturns ==
    /\ selfTest.pc = "verdict"
    /\ selfTest' = [selfTest EXCEPT
                       !.pc = "returned",
                       !.returned = IF selfTest.all_passed THEN "0" ELSE "1"]
    /\ UNCHANGED templates
    /\ UNCHANGED <<sessionVars, registryVars, syncVars, formVars,
                   backendVars, diffVars,
                   transcriptVars, gateVars>>

SelfTestInit ==
    /\ Quiet
    /\ BackendIdle /\ DiffIdle /\ TranscriptIdle /\ GateIdle
    /\ templates \in Bundles
    /\ SelfTestIdle
    /\ SyncIdle /\ remotes = NoRemotes
    /\ FormIdle

SelfTestNext ==
    \/ TestTemplateStructure
    \/ TestAgentConfigs
    \/ TestHookExecutables
    \/ TestWorkflowCommand
    \/ MainReturns

SelfTestSpec == SelfTestInit /\ [][SelfTestNext]_vars

TypeOK ==
    /\ pc \in {"setup", "not_constructed", "register", "implementer",
               "await_implementer", "reviewer", "await_reviewer", "loop_test",
               "feedback", "await_feedback", "rereview", "await_rereview",
               "after_loop", "test_planner", "await_test_planner", "sync",
               "create_pr", "except", "finally", "done"}
    /\ host \in {"nested", "ordinary"}
    /\ workspaceMode \in {"unset", "worktree", "clone", "original"}
    /\ (workspaceMode # "unset" => isolated = (workspaceMode # "original"))
    /\ success \in {"unbound", "True", "False"}
    /\ result \in {"pending", "True", "False", "raised"}
    /\ implementation_data \in {"unset", "ready", "not_ready"}
    /\ review_data \in {"unset", "approved", "rejected"}
    /\ iteration \in 0..(max_iterations + 1)
    /\ regStatus \in {"absent", "in_progress", "completed", "failed",
                      "terminated"}
    /\ sessionDir \in {"absent", "present", "archived", "deleted"}
    /\ archive.result \in {"not_run", "True", "False"}
    /\ archive.deleted \subseteq {"session", "other"}
    /\ worktreeRegistered \in BOOLEAN
    /\ repoDirRemoved \in BOOLEAN
    /\ registry.kind \in {"missing", "corrupt", "valid"}
    /\ \A c \in Clients : clients[c].pc \in {"idle", "loaded", "done"}
    /\ Len(writeOrder) <= Cardinality(Clients)
    /\ (regFile # "valid" => regStatus = "absent")
    /\ status \in {"unset", "completed", "failed"}
    /\ exc \in {"none", "register", "implementer", "reviewer", "feedback",
               "create_pr"}
    /\ \A i \in DOMAIN active_connections : active_connections[i] \in Conns
    /\ gone \subseteq accepted /\ handled \subseteq gone
    /\ disconnectErrors \subseteq handled
    /\ \A t \in Callers :
          /\ bcast[t].pc \in {"idle", "loop", "send", "returned", "raised"}
          /\ bcast[t].idx \in 0..Cardinality(Conns)
          /\ bcast[t].failed \cup bcast[t].delivered \subseteq Conns
    /\ background.pc \in {"not_started", "running", "completed_broadcast",
                          "error_broadcast", "done"}
    /\ Len(background.messages) <= 2
(***************************************************************************)
(* Vocabulary of the properties                                            *)
(***************************************************************************)

\* how often step `c` was invoked
Calls(c) == Cardinality({i \in DOMAIN calls : calls[i] = c})

\* how many reports agent `a` returned
Reports(a) == Cardinality({i \in DOMAIN reports : reports[i].agent = a})

Ended == pc = "done"

\* every call of the Implementer (initial and feedback) and of the Reviewer
\* came back with a report
AgentsReturned ==
    /\ Calls("implementer") = Reports("implementer")
    /\ Calls("feedback") = Reports("feedback")
    /\ Calls("reviewer") = Reports("reviewer")

\* every Implementer turn so far claimed readiness
AllReady ==
    \A i \in DOMAIN reports :
        reports[i].agent \in {"implementer", "feedback"}
            => reports[i].report = "ready"

\* every review so far was a rejection
AllRejected ==
    \A i \in DOMAIN reports :
        reports[i].agent = "reviewer" => reports[i].report = "rejected"

\* the initial Implementer report did not claim ready_for_review
InitialNotReady ==
    /\ Reports("implementer") = 1
    /\ \E i \in DOMAIN reports : reports[i] = Report("implementer", "not_ready")

\* the most recent Reviewer report
LastReview ==
    LET idx == {i \in DOMAIN reports : reports[i].agent = "reviewer"}
    IN  IF idx = {} THEN "none"
        ELSE reports[CHOOSE i \in idx : \A j \in idx : j <= i].report

(***************************************************************************)
(* Properties                                                              *)
(***************************************************************************)

\* C1: run_workflow never lets an exception escape to its caller; whatever
\* the agents answer and whatever raises inside the body, it ends by
\* returning True or False.
C1_NoExceptionEscapes ==
    /\ result # "raised"
    /\ (Ended => result \in {"True", "False"})

\* C2: when run_workflow has ended and the session is in the registry, its
\* status is `completed` if the workflow succeeded and `failed` otherwise; it
\* is never left `in_progress`.
C2_StatusFollowsOutcome ==
    (Ended /\ regStatus # "absent")
        => regStatus = (IF result = "True" THEN "completed" ELSE "failed")

\* C3: the Implementer-with-feedback is never invoked more than
\* max_iterations times, and when the initial Implementer and every feedback
\* run claim readiness and every review is a rejection, it has been invoked
\* exactly max_iterations times when the workflow ends, and the workflow
\* reports failure.
C3_ReviewLoopBound ==
    /\ Calls("feedback") <= max_iterations
    /\ (Ended /\ Calls("implementer") = 1 /\ AgentsReturned /\ AllReady
              /\ AllRejected)
          => /\ Calls("feedback") = max_iterations
             /\ result = "False"

\* C3 witness: a run of three rejected feedback rounds has ended in failure
C3_Witness ==
    /\ Ended /\ Calls("implementer") = 1 /\ AgentsReturned
    /\ AllReady /\ AllRejected
    /\ Calls("feedback") = 3 /\ Reports("reviewer") = 4
    /\ result = "False"

\* C4: if the initial Implementer report does not claim ready_for_review,
\* run_workflow reports failure with final status `failed`, and neither the
\* Reviewer, the feedback Implementer, the Test Planner, sync-back nor PR
\* creation is executed.
C4_NotReadyFailsImmediately ==
    (Ended /\ InitialNotReady)
        => /\ result = "False"
           /\ status = "failed"
           /\ Calls("reviewer") = 0 /\ Calls("feedback") = 0
           /\ Calls("test_planner") = 0 /\ Calls("sync") = 0
           /\ Calls("create_pr") = 0

C6_ApprovalAtRthReview ==
    (Ended /\ Calls("implementer") = 1 /\ AgentsReturned /\ AllReady
           /\ LastReview = "approved")
        => /\ Reports("reviewer") \in 1..(max_iterations + 1)
           /\ Calls("feedback") = Reports("reviewer") - 1
           /\ result = "True"
           /\ status = "completed"

\* the order of the steps invoked so far: registration, the initial
\* Implementer, a review, then (feedback, review) pairs, then Test Planner,
\* sync-back, PR creation
StepOrder ==
    \A i \in DOMAIN calls :
        /\ (i = 1 => calls[i] = "register")
        /\ (i = 2 => calls[i] = "implementer")
        /\ (i = 3 => calls[i] = "reviewer")
        /\ (calls[i] \in {"register", "implementer"} => i <= 2)
        /\ (calls[i] = "feedback" => i > 3 /\ calls[i - 1] = "reviewer")
        /\ (calls[i] = "reviewer" /\ i > 3 => calls[i - 1] = "feedback")
        /\ (calls[i] = "test_planner" => i > 3 /\ calls[i - 1] = "reviewer")
        /\ (calls[i] = "sync" => i > 1 /\ calls[i - 1] = "test_planner")
        /\ (calls[i] = "create_pr" => i > 1 /\ calls[i - 1] = "sync")

\* the steps after the review loop run at most once, and only after an
\* approving review
ShipOnceAfterApproval ==
    \A c \in {"test_planner", "sync", "create_pr"} :
        /\ Calls(c) <= 1
        /\ (Calls(c) = 1 => LastReview = "approved")

\* C7: the steps of a session are invoked in the order registration, initial
\* Implementer, Reviewer, (feedback Implementer, Reviewer)*, Test Planner,
\* sync-back, PR creation; the last three run at most once and only after an
\* approving review; and a step is invoked only while no agent call is
\* outstanding.
C7_SequentialOrder ==
    /\ [](StepOrder /\ ShipOnceAfterApproval)
    /\ [][calls' # calls => running = "none"]_vars

\* C7 witness: a run with one feedback round has gone through PR creation
C7_Witness ==
    /\ Calls("feedback") = 1 /\ Calls("reviewer") = 2
    /\ Calls("test_planner") = 1 /\ Calls("sync") = 1
    /\ Calls("create_pr") = 1 /\ Ended

\* the Test Planner was invoked and raised or returned no plan
TestPlanningFailed ==
    /\ Calls("test_planner") = 1
    /\ pc \notin {"test_planner", "await_test_planner"}
    /\ test_plan_data \in {"empty", "not_generated"}

\* C8: after approval, a Test Planner call that raises or returns
\* test_plan_generated = false does not fail the workflow: sync-back and PR
\* creation still run, and run_workflow reports success with status
\* `completed`.
C8_TestPlanningBestEffort ==
    (Ended /\ TestPlanningFailed)
        => /\ Calls("sync") = 1 /\ Calls("create_pr") = 1
           /\ result = "True"
           /\ status = "completed"

\* sync-back ran against a separate workspace and did not complete every
\* command
SyncFailed ==
    /\ Calls("sync") = 1 /\ pc # "sync"
    /\ isolated
    /\ (~branchSynced \/ tempRemote)

\* _create_pr ran and produced no pull request
PrFailed ==
    /\ Calls("create_pr") = 1 /\ pc # "create_pr"
    /\ pr_url # "url"

\* C9: after approval, a failed sync-back and a failed PR creation are not
\* fatal: run_workflow reports success and the final status is `completed`.
C9_ShippingFailuresNonFatal ==
    (Ended /\ Calls("create_pr") = 1 /\ (SyncFailed \/ PrFailed))
        => /\ result = "True"
           /\ status = "completed"

\* the final status update ran into a bookkeeping failure
BookkeepingFailed ==
    updateOutcome \in {"read_failed", "write_failed", "absent",
                       "broadcast_failed"}

\* C10: a failed registry read or write in the final status update, a session
\* absent from the registry and a failed broadcast leave the result alone:
\* run_workflow raises nothing and returns the value the workflow body
\* computed, True exactly when the approval branch ran to its end.
C10_BookkeepingNeverAffectsResult ==
    BookkeepingFailed
        => /\ Ended
           /\ result \in {"True", "False"}
           /\ result = success
           /\ (result = "True" <=> (pr_url # "unset" /\ exc = "none"))

\* C10 witness: an approved run whose final registry write failed has
\* returned True
C10_Witness ==
    /\ updateOutcome = "write_failed"
    /\ result = "True"

\* the newest response came from `agent` and held no block that parses
NothingExtracted(agent) ==
    /\ last_logged.agent = agent
    /\ last_logged.found \in {"no_block", "bad_json"}

\* C11: a Reviewer response without a json:review block, or with a block
\* that does not parse, gives a report with approval = false and a concern
\* naming the failed extraction; an approving report comes only from a
\* parsed block.
C11_PessimisticReviewerDefault ==
    /\ NothingExtracted("reviewer")
          => /\ review_data = "rejected"
             /\ review_concerns \in {"cut_off", "truncated",
                                     "no_structured_output", "parse_error"}
    /\ (last_logged.agent = "reviewer" /\ review_data = "approved")
          => last_logged.found = "block"
    /\ review_data = "approved" => review_concerns = "from_block"

\* C11 witness: a long response without closing fence was turned into a
\* rejection that names the truncation
C11_Witness ==
    /\ last_logged = Logged("reviewer", "no_block")
    /\ review_data = "rejected"
    /\ review_concerns = "truncated"

C13_FallbackChain ==
    /\ \A i \in DOMAIN setupSteps :
          setupSteps[i] = Step("worktree_add", "fail")
              => /\ i + 1 \in DOMAIN setupSteps
                 /\ setupSteps[i + 1].cmd = "clone"
    /\ workspaceMode = "original"
          => /\ \E i \in DOMAIN setupSteps : setupSteps[i] = Step("clone", "fail")
             /\ ~isolated

\* archive_session found the session's entry and returned True
Archived == archive.found /\ archive.result = "True"

\* C14: a session in original-path fallback mode (workspace path equal to
\* the original repository path) has no sync-back command run and nothing
\* synced, archive_session runs no worktree removal and no recursive
\* deletion for it, and no cleanup ever removes the caller's repository
\* directory.
C14_OriginalModeLeftAlone ==
    /\ ~repoDirRemoved
    /\ workspaceMode = "original"
          => /\ syncLog = <<>>
             /\ ~tempRemote
             /\ ~branchSynced
             /\ \A o \in branchOps : o.op # "force_update"
             /\ archive.cmds = <<>>

\* C14 witness: a session that fell back to the original repository went
\* through sync-back and was archived
C14_Witness ==
    /\ workspaceMode = "original"
    /\ Calls("sync") = 1
    /\ Archived

\* C15: the only branch of the original repository a session creates,
\* force-updates or deletes is its own wizardry-<workflow_id> branch, that
\* branch is the head of sync-back and of the pull request, and the base
\* branch of the original repository is never checked out or moved.
C15_BranchIsolation ==
    /\ \A o \in branchOps :
          o.op \in {"create", "force_update", "delete"} => o.branch = "session"
    /\ \A h \in shipHeads : h.head = "session"
    /\ \A o \in branchOps :
          o.branch = "base" => o.op \notin {"checkout", "force_update", "delete"}

\* C18: archive_session deletes only branches listed for the pattern
\* wizardry-*S and never the base branch, deletes branches only for a
\* session whose status is completed, failed or terminated, and removes the
\* entry of a registered session from the registry whenever the registry
\* file itself can be written.
C18_ArchiveBranchPattern ==
    /\ archive.deleted \subseteq {"session", "other"}
    /\ archive.deleted # {}
          => archive.seen \in {"completed", "failed", "terminated"}
    /\ (archive.found /\ "registry_write" \notin archive.failed)
          => regStatus = "absent"

\* C19: for a registered session a failure in moving the session directory,
\* in branch deletion or in worktree removal stops none of the later steps:
\* every step is reached, the entry is deleted and archive_session returns
\* True.
C19_ArchiveStepsFailSoft ==
    (archive.found /\ "registry_write" \notin archive.failed)
        => /\ archive.ran = {"move", "branches", "worktree", "registry"}
           /\ archive.result = "True"
           /\ regStatus = "absent"

\* C20: when a session with a separate workspace has been archived,
\* archive_session ran `worktree remove`, then `worktree remove --force`
\* only after that failed, then the recursive deletion only after that
\* failed too, and the original repository lists no worktree for the
\* workspace any more.
C20_WorktreeRemovedOnArchive ==
    (Archived /\ workspaceMode \in {"worktree", "clone"})
        => /\ archive.cmds \in
                {<<"worktree_remove">>,
                 <<"worktree_remove", "worktree_remove_force">>,
                 <<"worktree_remove", "worktree_remove_force", "rmtree">>}
           /\ ~worktreeRegistered

\* C16: an operation that found the registry file missing or not parseable
\* as JSON does not raise and does exactly what it does on a registry file
\* holding `{}`.
C16_CorruptReadsAsEmpty ==
    \A c \in Clients :
        (clients[c].pc # "idle" /\ clients[c].saw \in {"missing", "corrupt"})
            => /\ ~clients[c].out.raised
               /\ clients[c].out = Operation(clients[c].op, Valid(Empty),
                                           clients[c].sid)

\* C16 witness: load_sessions, a registration and an archive_session have
\* each met a corrupt file
C16_Witness ==
    /\ clients["c1"].saw = "corrupt"
    /\ clients["c1"].op \in {"load_sessions", "archive"}
    /\ clients["c2"].saw = "corrupt"
    /\ clients["c2"].op = "register"
    /\ clients["c2"].pc = "done"

\* client p read the file before q's write landed and wrote after it, both
\* writes succeeded, and the two work on different sessions
Overlapped(p, q) ==
    /\ p # q
    /\ writeOrder = <<q, p>>
    /\ clients[p].readAt = 0
    /\ clients[p].wrote = "ok"
    /\ clients[q].wrote = "ok"
    /\ clients[p].sid # clients[q].sid

\* C17: when a writer's read-modify-write overlaps another writer's write,
\* the file ends up as the last writer's copy: for the other writer's
\* session it holds what the last writer had read, so the other writer's
\* update is absent from it.
C17_LastWriterWins ==
    \A p \in Clients, q \in Clients :
        Overlapped(p, q)
            => /\ registry = Valid(clients[p].out.write)
               /\ registry.entries[clients[q].sid]
                     = clients[p].out.snap[clients[q].sid]

\* C17 witness: two registrations of distinct sessions overlapped and the
\* file holds only the entry of the one that wrote last
C17_Witness ==
    \E p \in Clients, q \in Clients :
        /\ Overlapped(p, q)
        /\ clients[p].op = "register"
        /\ clients[q].op = "register"
        /\ registry.entries[clients[p].sid] = "in_progress"
        /\ registry.entries[clients[q].sid] = "absent"

\* _sync_to_original_repo has returned
SyncReturned == Calls("sync") = 1 /\ pc # "sync"

\* C21: once _sync_to_original_repo has returned, the temporary remote it
\* added to the original repository is gone, whether fetch and branch
\* update succeeded or failed.
C21_TempRemoteRemoved ==
    SyncReturned => ~tempRemote

\* a feedback-driven Implementer run returned a report that is not ready
FeedbackNotReady ==
    \E i \in DOMAIN reports : reports[i] = Report("feedback", "not_ready")

\* C30: after a feedback-driven run that does not claim readiness no agent
\* is called again, Test Planner, sync-back and PR creation are not run, and
\* the workflow ends returning False with status failed.
C30_FeedbackNotReadyEndsLoop ==
    FeedbackNotReady
        => /\ reports[Len(reports)] = Report("feedback", "not_ready")
           /\ calls[Len(calls)] = "feedback"
           /\ running = "none"
           /\ Calls("test_planner") = 0
           /\ Calls("sync") = 0
           /\ Calls("create_pr") = 0
           /\ Ended => /\ result = "False"
                       /\ status = "failed"
                       /\ (updateOutcome \in {"ok", "broadcast_failed"}
                              => regStatus = "failed")

\* C30 witness: a workflow whose second feedback run was not ready has
\* ended with the registry entry failed
C30_Witness ==
    /\ Ended
    /\ FeedbackNotReady
    /\ Calls("feedback") = 2
    /\ regStatus = "failed"

\* C28: the status recorded for a session starts as in_progress, moves
\* only from in_progress to completed, failed or terminated, and no
\* operation changes a final status into another status (the entry may
\* still be deleted, which is not a status).
C28_StatusStateMachine ==
    [][(regStatus' # regStatus /\ regStatus' # "absent")
          => \/ regStatus = "absent" /\ regStatus' = "in_progress"
             \/ regStatus = "in_progress" /\ regStatus' \in {"completed", "failed",
                                                 "terminated"}]_vars

\* the connections broadcast t has tried to send to
Attempted(t) == bcast[t].failed \cup bcast[t].delivered

\* C23: when a broadcast has returned, every connection that was in the
\* list when it started has had a send attempted, and every one of them
\* whose client is still there has received the message.
C23_BroadcastReachesAll ==
    \A t \in Callers :
       bcast[t].pc = "returned"
          => \A i \in DOMAIN bcast[t].start :
                /\ bcast[t].start[i] \in Attempted(t)
                /\ bcast[t].start[i] \notin gone
                      => bcast[t].start[i] \in bcast[t].delivered

\* C29: when a broadcast has returned, no connection whose send failed in
\* it is left in active_connections, the broadcast removed no connection
\* whose send succeeded, and such a connection is still in the list unless
\* its client has gone since.
C29_FailedSendsRemoved ==
    \A t \in Callers :
       bcast[t].pc = "returned"
          => /\ \A c \in bcast[t].failed : ~Contains(active_connections, c)
             /\ bcast[t].delivered \cap bcast[t].removed = {}
             /\ \A c \in bcast[t].delivered \ gone :
                   Contains(active_connections, c)

\* a broadcast has returned after one send succeeded and a later one
\* failed and had its connection removed
C29_Witness ==
    \E t \in Callers :
       /\ bcast[t].pc = "returned"
       /\ bcast[t].delivered # {}
       /\ bcast[t].failed # {}
       /\ bcast[t].removed = bcast[t].failed

\* C24: the background task broadcasts nothing before run_orchestrator has
\* ended and, once the task is over, has broadcast exactly one message:
\* workflow_completed with the returned boolean when run_orchestrator
\* returned, workflow_error when it raised.
C24_OneCompletionMessage ==
    /\ background.pc \in {"not_started", "running"}
          => background.messages = <<>>
    /\ background.pc \in {"completed_broadcast", "error_broadcast"}
          => bcast["bg"].msg = background.messages[Len(background.messages)]
    /\ background.pc \in {"completed_broadcast", "error_broadcast", "done"}
          => /\ Len(background.messages) = 1
             /\ background.outcome = "raised"
                   => background.messages[1].type = "workflow_error"
             /\ background.outcome \in {"True", "False"}
                   => /\ background.messages[1].type = "workflow_completed"
                      /\ background.messages[1].success = background.outcome

\* the task is over after a workflow that returned False, and a send of
\* its workflow_completed broadcast had failed
C24_Witness ==
    /\ background.pc = "done"
    /\ background.outcome = "False"
    /\ background.messages = <<Message("workflow_completed", "False")>>
    /\ \E c \in gone : c \in accepted /\ ~Contains(active_connections, c)
                       /\ c \notin handled

\* the threshold and the file of the role of the newest diff preparation
ThresholdOf(role) ==
    IF role = "reviewer" THEN ReviewerThreshold ELSE TestPlannerThreshold

SpillFileOf(role) ==
    IF role = "reviewer" THEN "current_diff.txt" ELSE "test_planning_diff.txt"

\* C22: a diff longer than the role's threshold (10,000 for the Reviewer,
\* 8,000 for the Test Planner) is in the role's file in full and the prompt
\* points to that file without any of the diff; a diff up to the threshold
\* is in the prompt in full.
C22_DiffSpillover ==
    diffCall.role # "none"
       => IF diffCall.len > ThresholdOf(diffCall.role)
          THEN /\ diffFiles[SpillFileOf(diffCall.role)]
                     = DiffFile(TRUE, diffCall.len)
               /\ diffCall.prompt
                     = Prompt("pointer", 0, SpillFileOf(diffCall.role))
          ELSE diffCall.prompt = Prompt("inline", diffCall.len, "none")

\* C22, amended: as C22 when the file can be written; when it cannot, the
\* prompt holds the first 5,000 (Reviewer) or 4,000 (Test Planner)
\* characters of the diff and points to no file.
C22_SpilloverUnlessWriteFails ==
    diffCall.role # "none"
       => IF diffCall.len > ThresholdOf(diffCall.role)
          THEN IF diffCall.write = "ok"
               THEN /\ diffFiles[SpillFileOf(diffCall.role)]
                          = DiffFile(TRUE, diffCall.len)
                    /\ diffCall.prompt
                          = Prompt("pointer", 0, SpillFileOf(diffCall.role))
               ELSE /\ diffCall.prompt.kind = "truncated"
                    /\ diffCall.prompt.file = "none"
                    /\ diffCall.prompt.literal
                          = (IF diffCall.role = "reviewer" THEN 5000 ELSE 4000)
          ELSE diffCall.prompt = Prompt("inline", diffCall.len, "none")

\* the Reviewer got a diff of exactly 10,000 characters inline after the
\* Test Planner's diff of 8,001 characters went to its file
C22_Witness ==
    /\ diffCall.role = "reviewer"
    /\ diffCall.len = 10000
    /\ diffCall.prompt = Prompt("inline", 10000, "none")
    /\ diffFiles["test_planning_diff.txt"] = DiffFile(TRUE, 8001)

\* C27: whenever the transcript has been parsed after N appends, the
\* parse has exactly N entries, in the order of the appends, each with a
\* timestamp and with a task or a response.
C27_TranscriptRoundTrip ==
    parsed.at >= 1
       => /\ Len(parsed.entries) = parsed.at
          /\ \A i \in DOMAIN parsed.entries :
                /\ parsed.entries[i].timestamp = i
                /\ parsed.entries[i].task \/ parsed.entries[i].response

\* the requests that ran a workflow
RanRequests == {i \in DOMAIN requests : requests[i].ran}

\* C25: a `wizardry run` with a missing path, a directory that is not a
\* git repository, no setup bundle and no --auto-setup, or an unknown
\* branch exits non-zero; a POST /api/sessions with an invalid repository
\* or a branch that is not a local branch is answered 400; none of these
\* constructs an orchestrator, creates a session directory or writes a
\* registry entry.
C25_PreconditionGating ==
    /\ \A i \in DOMAIN requests :
          LET r == requests[i] IN
          /\ (/\ r.via = "cli"
              /\ \/ r.path \in {"missing", "no_git", "broken_git"}
                 \/ r.bundle = "absent" /\ ~r.auto_setup
                 \/ r.branch = "unknown")
                => r.answer = "exit_1" /\ ~r.ran
          /\ (/\ r.via = "api"
              /\ r.path # "repo" \/ r.branch # "local")
                => r.answer = "400" /\ ~r.ran
    /\ constructed = Cardinality(RanRequests)
    /\ sessionDirsCreated = Cardinality(RanRequests)
    /\ registryWrites <= Cardinality(RanRequests)

\* C26: when main has returned, it returned 1 if a required file is
\* missing or an agent configuration is invalid JSON or lacks a field, and
\* 0 if the bundle is complete with valid configurations, whatever the
\* executable bits are; a missing executable bit has only given a warning;
\* and all four checks have run, in order, whatever failed.
C26_SelfTestVerdict ==
    selfTest.pc = "returned"
       => /\ (\/ templates.missing # {}
              \/ \E a \in AgentFiles : templates.config[a] # "valid")
                => selfTest.returned = "1"
          /\ (/\ templates.missing = {}
              /\ \A a \in AgentFiles : templates.config[a] = "valid")
                => selfTest.returned = "0"
          /\ selfTest.warnings = templates.nonexec \ templates.missing
          /\ selfTest.ran = <<"template_structure", "agent_configs",
                              "hook_executables", "workflow_command">>

\* main has returned 1 for a bundle that lacks only hooks/pre_tool.sh
\* and has a hook without the executable bit
C26_Witness ==
    /\ selfTest.pc = "returned"
    /\ selfTest.returned = "1"
    /\ templates.missing = {"hooks/pre_tool.sh"}
    /\ templates.nonexec = {"hooks/post_tool.sh"}
    /\ Len(selfTest.ran) = 4

\* C35: in every interleaving of broadcasts, connects and client
\* disconnects, handling a disconnect raises no error, no connection is in
\* active_connections twice, and no connection whose disconnect has been
\* handled is in it.
C35_DisconnectAndBroadcast ==
    /\ disconnectErrors = {}
    /\ \A i, j \in DOMAIN active_connections :
          active_connections[i] = active_connections[j] => i = j
    /\ \A c \in handled : ~Contains(active_connections, c)

\* the operations that are _update_session_status
StatusUpdates == {"update_completed", "update_failed"}

\* C34: once archive_session has removed a session's entry and written the
\* file, a final _update_session_status of the same session that writes
\* afterwards leaves the entry absent.
C34_ArchivalIsFinal ==
    \A p \in Clients, q \in Clients :
        (/\ p # q
         /\ clients[q].op = "archive"
         /\ clients[q].wrote = "ok"
         /\ clients[p].op \in StatusUpdates
         /\ clients[p].sid = clients[q].sid
         /\ clients[p].wrote = "ok"
         /\ writeOrder = <<q, p>>)
            => registry.entries[clients[q].sid] = "absent"

\* client c writes in this step, nothing was written since it read, and the
\* write completes
WritesAlone(c) ==
    /\ clients[c].pc = "loaded"
    /\ clients'[c].pc = "done"
    /\ clients'[c].wrote = "ok"
    /\ clients[c].readAt = Len(writeOrder)

\* the status the operation leaves in its own session's entry
OwnEntryAfter(op) ==
    CASE op = "register"         -> "in_progress"
      [] op = "update_completed" -> "completed"
      [] op = "update_failed"    -> "failed"
      [] op = "cli_kill"         -> "terminated"
      [] op = "kill_session"     -> "terminated"
      [] op = "archive"          -> "absent"

\* C33: an operation that does not interleave with another and whose write
\* completes changes only its own session's entry: a registration adds it, a
\* status update and a kill set its status, an archival removes it; every
\* other entry is as it was, a status update that finds no entry writes
\* nothing, and an entry that leaves the file is the one being archived.
C33_OwnEntryOnly ==
    [][\A c \in Clients :
          /\ (/\ clients[c].pc = "idle"
              /\ clients'[c].op \in StatusUpdates
              /\ registry.entries[clients'[c].sid] = "absent")
                 => clients'[c].pc = "done"
          /\ WritesAlone(c)
                 => /\ registry'.kind = "valid"
                    /\ \A s \in Sessions \ {clients[c].sid} :
                          registry'.entries[s] = registry.entries[s]
                    /\ registry'.entries[clients[c].sid]
                          = OwnEntryAfter(clients[c].op)
                    /\ \A s \in Sessions :
                          (registry.entries[s] # "absent"
                              /\ registry'.entries[s] = "absent")
                             => clients[c].op = "archive" /\ s = clients[c].sid
      ]_vars

\* C33 witness: a registration of one session and then an archival of the
\* other, neither interleaved, on a file that held the other session's
\* entry each time
C33_Witness ==
    /\ writeOrder = <<"c1", "c2">>
    /\ clients["c1"].op = "register"
    /\ clients["c1"].wrote = "ok"
    /\ clients["c1"].out.snap[clients["c2"].sid] # "absent"
    /\ clients["c2"].op = "archive"
    /\ clients["c2"].readAt = 1
    /\ clients["c2"].wrote = "ok"
    /\ clients["c2"].sid # clients["c1"].sid
    /\ registry.entries[clients["c1"].sid] = "in_progress"
    /\ registry.entries[clients["c2"].sid] = "absent"

\* implementation_data.get("ready_for_review", False) of the block the
\* response holds
BlockFlag(resp) == IF resp = "ready" THEN "ready" ELSE "not_ready"

\* C31: after an Implementer turn (initial or feedback) whose response holds
\* a json:implementation block that parses, the report the workflow holds is
\* the parsed block, whatever the state of the workspace repository was
\* when the validation ran.
C31_ValidationIsDiagnostic ==
    (/\ last_logged.agent \in {"implementer", "feedback"}
     /\ last_logged.found = "block")
        => implementation_data = BlockFlag(last_logged.resp)

(***************************************************************************)
(* _sync_to_original_repo of two sessions against one original repository *)
(***************************************************************************)

\* `git remote add <name> <workspace>` without check: when a remote of that
\* name exists git refuses and the remote stays as it was
RemoteAdd(rs, name, url) ==
    IF rs[name] = "none" THEN [rs EXCEPT ![name] = url] ELSE rs

\* whether the workspace a remote points at has a branch of that name: a
\* session's workspace has its own checked-out branch, and may have a
\* branch the agents of both sessions created under the same name
MayHaveBranch(url, s, branch) ==
    IF url = "none" THEN {FALSE}
    ELSE IF url = s THEN {TRUE}
    ELSE IF branch = "feature" THEN BOOLEAN
    ELSE {FALSE}

\* current_branch is read and the workspace is added as a remote
SyncRemoteAdd(s) ==
    /\ syncs[s].pc = "idle"
    /\ \E b \in {SessionBranch(s), "feature"} :
          syncs' = [syncs EXCEPT ![s] = [pc |-> "added", branch |-> b,
                                         fetchedFrom |-> "none"]]
    /\ remotes' = RemoteAdd(remotes, workspace_remote_name(workflow_id(s)), s)
    /\ UNCHANGED <<trackingRefs, origBranches>>
    /\ UNCHANGED <<sessionVars, registryVars, backendVars, diffVars,
                   transcriptVars, gateVars, selfTestVars, formVars>>

\* `git fetch <name> <current_branch>` with check=True: it fetches from the
\* workspace the remote points at and sets the remote-tracking ref; a
\* failure leaves through the except handlers
SyncFetch(s) ==
    LET name == workspace_remote_name(workflow_id(s))
        url  == remotes[name]
        b    == syncs[s].branch
    IN  /\ syncs[s].pc = "added"
        /\ \E has \in MayHaveBranch(url, s, b), ok \in BOOLEAN :
              IF has /\ ok
              THEN /\ syncs' = [syncs EXCEPT ![s].pc = "fetched",
                                             ![s].fetchedFrom = url]
                   /\ trackingRefs' =
                          {r \in trackingRefs :
                               ~(r.remote = name /\ r.branch = b)}
                              \cup {TrackingRef(name, b, url)}
              ELSE /\ syncs' = [syncs EXCEPT ![s].pc = "failed"]
                   /\ UNCHANGED trackingRefs
        /\ UNCHANGED <<remotes, origBranches>>
        /\ UNCHANGED <<sessionVars, registryVars, backendVars, diffVars,
                       transcriptVars, gateVars, selfTestVars, formVars>>

\* `git branch -f <current_branch> <name>/<current_branch>` with check=True
SyncBranchUpdate(s) ==
    LET name == workspace_remote_name(workflow_id(s))
        b    == syncs[s].branch
        refs == {r \in trackingRefs : r.remote = name /\ r.branch = b}
    IN  /\ syncs[s].pc = "fetched"
        /\ \E ok \in BOOLEAN :
              IF refs # {} /\ ok
              THEN /\ syncs' = [syncs EXCEPT ![s].pc = "updated"]
                   /\ \E r \in refs :
                         origBranches' = [origBranches EXCEPT ![b] =
                                             [from |-> r.from, by |-> s]]
              ELSE /\ syncs' = [syncs EXCEPT ![s].pc = "failed"]
                   /\ UNCHANGED origBranches
        /\ UNCHANGED <<remotes, trackingRefs>>
        /\ UNCHANGED <<sessionVars, registryVars, backendVars, diffVars,
                       transcriptVars, gateVars, selfTestVars, formVars>>

\* `git remote remove <name>`: the remote and its remote-tracking refs go
SyncRemoteRemove(s) ==
    LET name == workspace_remote_name(workflow_id(s))
    IN  /\ syncs[s].pc = "updated"
        /\ syncs' = [syncs EXCEPT ![s].pc = "done"]
        /\ remotes' = [remotes EXCEPT ![name] = "none"]
        /\ trackingRefs' = {r \in trackingRefs : r.remote # name}
        /\ UNCHANGED origBranches
        /\ UNCHANGED <<sessionVars, registryVars, backendVars, diffVars,
                       transcriptVars, gateVars, selfTestVars, formVars>>

\* the original repository as the sessions find it: no remote, or the
\* remote an earlier session's failed sync-back left behind
SyncInit ==
    /\ Quiet
    /\ BackendIdle /\ DiffIdle /\ TranscriptIdle /\ GateIdle
    /\ templates = CompleteBundle /\ SelfTestIdle
    /\ FormIdle
    /\ SyncIdle
    /\ remotes \in
          {NoRemotes,
           RemoteAdd(NoRemotes,
                     workspace_remote_name(workflow_id(EarlierSession)),
                     EarlierSession)}

SyncNext ==
    \/ \E s \in SyncSessions : SyncRemoteAdd(s)
    \/ \E s \in SyncSessions : SyncFetch(s)
    \/ \E s \in SyncSessions : SyncBranchUpdate(s)
    \/ \E s \in SyncSessions : SyncRemoteRemove(s)

SyncSpec == SyncInit /\ [][SyncNext]_vars

\* C36: while a session's sync-back is between adding and removing its
\* temporary remote, that remote points at the session's own workspace; what
\* it fetched came from its own workspace; and a branch of the original
\* repository updated by a session's sync-back holds what that session's
\* workspace had.
C36_SyncBacksDoNotInterfere ==
    /\ \A s \in SyncSessions :
          /\ syncs[s].pc \in {"added", "fetched", "updated"}
                => remotes[workspace_remote_name(workflow_id(s))] = s
          /\ syncs[s].fetchedFrom \in {"none", s}
    /\ \A b \in SyncBranches :
          origBranches[b].by # "none"
              => origBranches[b].from = origBranches[b].by

(***************************************************************************)
(* The New Session form of the local dashboard                            *)
(***************************************************************************)

\* what the form holds when it is submitted
FormInput(repo_path, task, repo_info, is_setup) ==
    [repo_path |-> repo_path, task |-> task, repo_info |-> repo_info,
     is_setup |-> is_setup]

\* a repository path that is not a repository has no repo_info and is not
\* set up; an empty path has neither
FormInputs ==
    {f \in {FormInput(p, t, i, s) :
                p \in {"", "repo", "dir"}, t \in {"", "  ", "task"},
                i \in BOOLEAN, s \in BOOLEAN} :
         /\ f.repo_info => f.repo_path = "repo"
         /\ f.is_setup => f.repo_info}

\* render_session_form, `if submitted:` the four checks in their order
Validation(f) ==
    IF f.repo_path = "" THEN "Please select a repository"
    ELSE IF f.task \in {"", "  "} THEN "Please provide a task description"
    ELSE IF ~f.repo_info THEN "Invalid repository path"
    ELSE IF ~f.is_setup THEN "Repository must be setup for Wizardry first"
    ELSE "valid"

\* start_workflow: `if "workflow_running" not in st.session_state`
MayInvoke(flag) == flag = "unset"

\* the form is submitted: the validation returns early with its error, or
\* start_workflow sets the flag and calls run_orchestrator, or start_workflow
\* finds the key in st.session_state and only renders the workflow details
SubmitForm(t) ==
    /\ forms[t].pc = "idle"
    /\ forms[t].submitted < MaxSubmissions
    /\ \E f \in FormInputs :
          forms' = [forms EXCEPT ![t] =
              IF Validation(f) # "valid"
              THEN [@ EXCEPT !.submitted = @ + 1, !.shown = Validation(f)]
              ELSE IF MayInvoke(forms[t].workflow_running)
              THEN [@ EXCEPT !.submitted = @ + 1, !.valid = @ + 1,
                             !.invoked = @ + 1, !.pc = "running",
                             !.workflow_running = "True",
                             !.shown = "Starting implementer agent"]
              ELSE [@ EXCEPT !.submitted = @ + 1, !.valid = @ + 1,
                             !.shown = "Workflow Details"]]
    /\ UNCHANGED <<sessionVars, registryVars, syncVars, backendVars, diffVars,
                   transcriptVars, gateVars, selfTestVars>>

\* asyncio.run(run_orchestrator(...)) returns True or False or raises; the
\* finally clause sets workflow_running to False
OrchestratorReturns(t) ==
    /\ forms[t].pc = "running"
    /\ \E outcome \in {"True", "False", "raised"} :
          forms' = [forms EXCEPT ![t].pc = "idle",
                                 ![t].workflow_running = "False",
                                 ![t].shown =
                                     CASE outcome = "True"  -> "Workflow completed"
                                       [] outcome = "False" -> "Workflow failed"
                                       [] OTHER             -> "Workflow error"]
    /\ UNCHANGED <<sessionVars, registryVars, syncVars, backendVars, diffVars,
                   transcriptVars, gateVars, selfTestVars>>

FormInit == Quiet /\ AuxInit

FormNext ==
    \/ \E t \in Browsers : SubmitForm(t)
    \/ \E t \in Browsers : OrchestratorReturns(t)

FormSpec == FormInit /\ [][FormNext]_vars

\* C32: in every browser session the orchestrator has been invoked once for
\* each valid submission of the form, also for a submission made after an
\* earlier workflow has finished.
C32_EveryValidSubmissionRuns ==
    \A t \in Browsers : forms[t].invoked = forms[t].valid
====
